---- MODULE Spec2Model ----
(***************************************************************************)
(* Verification model of saugns / mgensys.                                 *)
(*                                                                         *)
(*  - the audio generator's run-node scheduler (MGS_Generator_run and      *)
(*    MGS_Generator_prepare_node) driven by the produce_sound loop;        *)
(*  - the script parser (parse_level, parse_step and the node functions)   *)
(*    working on a tokenised script, followed by the timing passes of      *)
(*    ParseConv_convert (time_event, group_events, flatten_events).        *)
(*                                                                         *)
(* Script times are in units of 100 ms.                                    *)
(*                                                                         *)
(* The C integers are modelled with a reduced width of WordBits bits:      *)
(* U32 is the conversion to uint32_t, I32 the conversion to int.           *)
(***************************************************************************)
EXTENDS Integers, Sequences, FiniteSets, TLC

VARIABLES
    \* ---- generator (MGS_Generator and the caller's loop) ----
    prg,          \* the MGS_Program node list (read-only input)
    run_nodes,    \* o->run_nodes[]: pos, status, ref_prev
    sound_nodes,  \* o->sound_nodes[]: time, type, modulator chains and link
                  \* (keyed by the node that created it)
    delay_offs,   \* o->delay_offs
    time_flags,   \* o->time_flags (set of flag names)
    runn_i,       \* o->runn_i (1-based; runn_end = Len(prg) + 1)
    bufc,         \* o->bufc
    bufs_short,   \* whether run_block was given fewer buffers than it uses
    gpc,          \* position of the caller / run call
    len,          \* run's local len
    skiplen,      \* run's local skiplen
    totlen,       \* run's local totlen
    gen_len,      \* *gen_len as reported by the last returned call
    ret,          \* return value of the last returned call
    written,      \* frames handed to the sinks by produce_sound
    base,         \* absolute index of the first sample of the current pass
    rend_end,     \* per run node: one past the last absolute sample it rendered
    due,          \* per run node: absolute sample at which its wait reached zero
    runp,         \* run_program: its arguments, locals, position and renders
    \* ---- parser and timing passes (SAU_Parser, ParseLevel, ParseConv) ----
    script,       \* the tokens of the script (read-only input)
    sp,           \* scanner position: index of the next token
    evs,          \* the SAU_ParseEvData nodes, by id
    ops,          \* the SAU_ParseOpData nodes (with their one ParseOpRef), by id
    pls,          \* the stack of ParseLevel records; the last one is current
    first_ev,     \* o->first_ev
    last_ev,      \* o->ev
    label_data,   \* the label symbol's data: the op ref it names, or 0
    ppc,          \* position: parsing, a timing pass, or done
    pe,           \* the event a pass is at
    parsed,       \* the nodes as the parser left them, before the passes
    timed,        \* the nodes as the time pass left them, before a second one
    conv,         \* the script data ParseConv has built, and its contexts
    flat_wrap,    \* whether a subtraction of flatten_events wrapped
    \* ---- functions checked on inputs of their own ----
    blk,          \* run_block on a tree of sound nodes: the tree, o->bufc and
                  \* the highest index into o->bufs that was used
    cli,          \* main of saugns.c: argv, what parse_args has set, what was
                  \* printed, built and rendered, and the exit status
    va,           \* the builder's voice allocation: the events, the
                  \* VoiceAllocData array and the ids given so far
    nl            \* a node list, its shallow copy, and the pool of
                  \* SAU_NodeRef items both point into

genVars == <<prg, run_nodes, sound_nodes, delay_offs, time_flags, runn_i, bufc,
             bufs_short, gpc, len, skiplen, totlen, gen_len, ret, written, base,
             rend_end, due, runp>>

parseVars == <<script, sp, evs, ops, pls, first_ev, last_ev, label_data, ppc,
               pe, parsed, timed, conv, flat_wrap>>

libVars == <<blk, cli, va, nl>>

vars == <<genVars, parseVars, libVars>>

(* ParseConv before it has converted a node of a parse with ne events and  *)
(* no operators. *)
NoConv(ne, no) ==
    [sev |-> <<>>, sod |-> <<>>, ctx |-> <<>>, vctx |-> <<>>,
     op_conv |-> [o \in 1..no |-> 0], op_ctx |-> [o \in 1..no |-> 0],
     ev_conv |-> [e \in 1..ne |-> 0], vo_ctx |-> [e \in 1..ne |-> 0],
     err |-> FALSE]

(* No input is given to the functions checked on inputs of their own. *)
LibIdle ==
    /\ blk = [pc |-> "off", sn |-> <<>>, bufc |-> 0, hi |-> 0]
    /\ cli = [pc |-> "off"]
    /\ va = [pc |-> "off"]
    /\ nl = [pc |-> "off"]

(* run_program before it is called. *)
RunIdle ==
    [pc |-> "off", use_audiodev |-> FALSE, wav_path |-> FALSE, srate |-> 0,
     ad |-> FALSE, ad_srate |-> 0, wf |-> FALSE, status |-> TRUE,
     renders |-> <<>>, closed |-> {}, ret |-> TRUE]

(* The script reader before it is given a script. *)
ParseIdle ==
    /\ script = <<>> /\ sp = 1 /\ evs = <<>> /\ ops = <<>>
    /\ pls = <<>> /\ first_ev = 0 /\ last_ev = 0 /\ label_data = 0
    /\ ppc = "off" /\ pe = 0 /\ parsed = [evs |-> <<>>, ops |-> <<>>]
    /\ timed = [evs |-> <<>>, ops |-> <<>>]
    /\ conv = NoConv(0, 0)
    /\ flat_wrap = FALSE

----------------------------------------------------------------------------
(* Bounds of the model. *)
MaxNodes == 3
MaxDelay == 1
MaxTime == 4
MaxSnap == 2
MaxLen == 2
WordBits == 6

Max(a, b) == IF a > b THEN a ELSE b

(* Conversion to the unsigned and to the signed machine integer. *)
Word == 2 ^ WordBits
U32(x) == x % Word
I32(x) == IF (x % Word) >= (Word \div 2) THEN (x % Word) - Word ELSE x % Word

----------------------------------------------------------------------------
(* The program handed to the generator.                                    *)

(* A first node of a sound carries every parameter; a reference node       *)
(* carries any subset.  Times and snaps are in samples.                    *)
Times == {0, MaxTime}
ParamSets == {{"TIME", "FREQ"}, {"TIME"}, {"FREQ"}, {}}

NodeChoices ==
    { n \in [delay : 0..MaxDelay, time : Times, snap : 0..MaxSnap,
             params : ParamSets, ref_prev : 0..(MaxNodes - 1),
             fmod : {0}, pmod : {0}, amod : {0}, nested_next : {0},
             root_id : {0}] :
        /\ n.snap <= (IF "TIME" \in n.params THEN n.time ELSE MaxSnap)
        /\ ("TIME" \notin n.params => n.time = 0)
        /\ ("FREQ" \notin n.params /\ ~("TIME" \in n.params /\ n.time > 0)
               => n.snap = 0)
        /\ (n.ref_prev = 0 => n.params = {"TIME", "FREQ"}) }

(* ref_prev names an earlier node, and the latest one of its sound.        *)
WellFormed(p) ==
    \A i \in 1..Len(p) :
        /\ p[i].ref_prev < i
        /\ \A j \in 1..(i - 1) :
               p[i].ref_prev # 0 => p[j].ref_prev # p[i].ref_prev

Programs ==
    UNION { { p \in [1..n -> NodeChoices] : WellFormed(p) } : n \in 0..MaxNodes }

RECURSIVE SoundOf(_, _)
(* index_nodes[i].sndn: the sound node a program node addresses. *)
SoundOf(p, i) == IF p[i].ref_prev = 0 THEN i ELSE SoundOf(p, p[i].ref_prev)

(* MGS_Osc_cycle_offs: the time snap of a node, never more than the time. *)
cycle_offs(node, time) == IF node.snap < time THEN node.snap ELSE time

RECURSIVE calc_bufs(_, _)
RECURSIVE calc_bufs_waveenv(_, _)
RECURSIVE CalcBufsFrom(_, _, _, _)
RECURSIVE CalcWaveenvFrom(_, _, _, _)

(* calc_bufs from its BEGIN label, for node n of the sound nodes sn, with  *)
(* the locals count and i as they are on arrival.                          *)
CalcBufsFrom(sn, n, count0, i0) ==
    LET count1 == count0 + 1
        i1 == IF sn[n].fmodchain # 0
              THEN calc_bufs_waveenv(sn, sn[n].fmodchain) ELSE i0
        count2 == count1 + 1
        i2 == i1 - 1
        i3 == IF sn[n].amodchain # 0
              THEN Max(i2, calc_bufs_waveenv(sn, sn[n].amodchain)) ELSE i2
        i4 == IF sn[n].pmodchain # 0
              THEN Max(i3, calc_bufs(sn, sn[n].pmodchain)) ELSE i3
    IN IF sn[n].link = 0
       THEN (IF i4 > 0 THEN count2 + i4 ELSE count2)
       ELSE CalcBufsFrom(sn, sn[n].link, count2 + 1, i4 - 1)

(* calc_bufs_waveenv from its BEGIN label. *)
CalcWaveenvFrom(sn, n, count0, i0) ==
    LET count1 == count0 + 1
        i1 == IF sn[n].fmodchain # 0
              THEN calc_bufs_waveenv(sn, sn[n].fmodchain) ELSE i0
        i2 == IF sn[n].pmodchain # 0
              THEN Max(i1, calc_bufs(sn, sn[n].pmodchain)) ELSE i1
    IN IF sn[n].link = 0
       THEN (IF i2 > 0 THEN count1 + i2 ELSE count1)
       ELSE CalcWaveenvFrom(sn, sn[n].link, count1 + 1, i2 - 1)

(* calc_bufs: the buffers run_block uses for sound node n. *)
calc_bufs(sn, n) == CalcBufsFrom(sn, n, 1, 0)

(* calc_bufs_waveenv: the buffers run_block_waveenv uses for sound node n. *)
calc_bufs_waveenv(sn, n) == CalcWaveenvFrom(sn, n, 1, 0)

(* upsize_bufs: the buffer count only grows. *)
upsize_bufs(sn, count, n) ==
    IF calc_bufs(sn, n) > count THEN calc_bufs(sn, n) ELSE count

(* The generator state threaded through one pass of MGS_Generator_run. *)
GenState ==
    [rn |-> run_nodes, sn |-> sound_nodes, doffs |-> delay_offs,
     tf |-> time_flags, bufc |-> bufc, short |-> bufs_short,
     len |-> len, skiplen |-> 0,
     off |-> 0, rend |-> rend_end, due |-> due]

(* The only element of a singleton.  Binding a value through a singleton  *)
(* set evaluates it once.                                                  *)
Only(S) == CHOOSE x \in S : TRUE

(* adjust_time: snap the time to the end of a wave cycle and keep the      *)
(* smallest snap as the pending delay offset.                              *)
adjust_time(s0, i) ==
    Only({ LET sid == SoundOf(prg, i)
               pos_offs == cycle_offs(prg[i], s.sn[sid].time)
               adopt == ("TIME_OFFS" \notin s.tf) \/ (s.doffs > pos_offs)
           IN [s EXCEPT !.sn[sid].time = U32(@ - pos_offs),
                        !.doffs = IF adopt THEN pos_offs ELSE @,
                        !.tf = IF adopt THEN @ \cup {"TIME_OFFS"} ELSE @]
           : s \in {s0} })

(* MGS_Generator_prepare_node for run node i. *)
MGS_Generator_prepare_node(s0, i) ==
    Only({ LET sid == SoundOf(prg, i)
               params == prg[i].params
               type == s.sn[sid].type
               hasTime == "TIME" \in params
               time1 == IF hasTime THEN prg[i].time ELSE s.sn[sid].time
               status1 ==
                   IF ~hasTime THEN s.rn[i].status
                   ELSE IF time1 # 0
                        THEN (IF type = "TOP"
                              THEN s.rn[i].status \cup {"ACTIVE"}
                              ELSE s.rn[i].status)
                        ELSE s.rn[i].status \ {"ACTIVE"}
               adjtime == (hasTime /\ time1 # 0) \/ ("FREQ" \in params)
               sn1 == [s.sn EXCEPT
                          ![sid].time = time1,
                          ![sid].amodchain = IF "AMODS" \in params
                                             THEN SoundOf(prg, prg[i].amod)
                                             ELSE @,
                          ![sid].fmodchain = IF "FMODS" \in params
                                             THEN SoundOf(prg, prg[i].fmod)
                                             ELSE @,
                          ![sid].pmodchain = IF "PMODS" \in params
                                             THEN SoundOf(prg, prg[i].pmod)
                                             ELSE @]
               top == IF type = "TOP" THEN sid
                      ELSE SoundOf(prg, prg[sid].root_id)
               s1 == [s EXCEPT !.sn = sn1,
                               !.rn[i].pos = IF hasTime THEN 0 ELSE @,
                               !.rn[i].status = status1,
                               !.bufc = upsize_bufs(sn1, @, top)]
               s2 == IF type = "TOP" /\ adjtime THEN adjust_time(s1, i) ELSE s1
               rp == s.rn[i].ref_prev
               s3 == IF rp # 0
                     THEN [s2 EXCEPT !.rn[rp].status = @ \ {"ACTIVE"}]
                     ELSE s2
           IN IF type \in {"TOP", "NESTED"}
              THEN [s3 EXCEPT !.rn[i].status = @ \cup {"PREPARED"}]
              ELSE [s EXCEPT !.rn[i].status = @ \cup {"PREPARED"}]
           : s \in {s0} })

(* run_node: the number of samples rendered for a node at pos. *)
run_node(n_time, pos, length) ==
    LET time == U32(n_time - pos)
    IN IF time > length THEN length ELSE time

RECURSIVE PrepareLoopNoProgress(_, _)
(* PrepareLoop with a split that hands the whole block to the next pass. *)
PrepareLoopNoProgress(s0, i) ==
    IF i > Len(prg) THEN s0
    ELSE Only({
        IF s.rn[i].pos < 0
        THEN [s EXCEPT !.skiplen = s.len, !.len = 0]
        ELSE PrepareLoopNoProgress(IF "PREPARED" \notin s.rn[i].status
                                   THEN MGS_Generator_prepare_node(s, i)
                                   ELSE s, i + 1)
        : s \in {s0} })

RECURSIVE PrepareLoop(_, _)
(* First loop of MGS_Generator_run: prepare the due nodes, split the      *)
(* block at the first node still waiting.                                 *)
PrepareLoop(s0, i) ==
    IF i > Len(prg) THEN s0
    ELSE Only({
        IF s.rn[i].pos < 0
        THEN LET delay == IF "TIME_OFFS" \in s.tf
                          THEN U32(U32(0 - s.rn[i].pos) - s.doffs)
                          ELSE U32(0 - s.rn[i].pos)
             IN IF delay <= s.len
                THEN [s EXCEPT !.skiplen = U32(s.len - delay), !.len = delay]
                ELSE s
        ELSE PrepareLoop(IF "PREPARED" \notin s.rn[i].status
                         THEN MGS_Generator_prepare_node(s, i) ELSE s, i + 1)
        : s \in {s0} })

(* Second loop, a node that still waits: apply the pending delay offset,  *)
(* then either count the block off its wait (and leave the loop) or start *)
(* it inside the block.  A node that does not wait is prepared if needed. *)
RenderWait(s0, i) ==
    Only({ LET r == s.rn[i]
               flag == "TIME_OFFS" \in s.tf
               delay == U32(0 - r.pos)
               pos1 == IF flag THEN I32(r.pos + s.doffs) ELSE r.pos
               sw == [s EXCEPT !.rn[i].pos = pos1,
                               !.doffs = IF flag THEN 0 ELSE @,
                               !.tf = @ \ {"TIME_OFFS"}]
           IN IF r.pos < 0
              THEN IF delay >= s.len
                   THEN [sw EXCEPT !.rn[i].pos = I32(pos1 + s.len),
                                   !.due[i] = IF I32(pos1 + s.len) >= 0
                                              THEN base + s.off + s.len
                                              ELSE @]
                   ELSE [sw EXCEPT !.off = @ + delay,
                                   !.len = U32(@ - delay),
                                   !.rn[i].pos = 0,
                                   !.due[i] = base + s.off + delay]
              ELSE IF "PREPARED" \notin r.status
                   THEN MGS_Generator_prepare_node(s, i)
                   ELSE s
           : s \in {s0} })

(* Second loop, rendering: an active node renders up to the end of its    *)
(* time and is deactivated when its position reaches the time.  run_node  *)
(* hands o->bufs to run_block, which uses calc_bufs of the node's tree.   *)
RenderNode(s0, i) ==
    Only({ LET n_time == s.sn[SoundOf(prg, i)].time
               done == run_node(n_time, s.rn[i].pos, s.len)
               pos2 == I32(s.rn[i].pos + done)
           IN IF "ACTIVE" \in s.rn[i].status
              THEN [s EXCEPT !.rn[i].pos = pos2,
                             !.short = @ \/ (calc_bufs(s.sn, SoundOf(prg, i))
                                                > s.bufc),
                             !.rn[i].status = IF U32(pos2) = n_time
                                              THEN @ \ {"ACTIVE"} ELSE @,
                             !.rend[i] = IF done # 0
                                         THEN base + s.off + done ELSE @]
              ELSE s
           : s \in {s0} })

RECURSIVE RenderLoop(_, _)
(* Second loop of MGS_Generator_run: count down waits and render the      *)
(* active nodes; the loop is left at a node whose wait outlasts the block. *)
RenderLoop(s0, i) ==
    IF i > Len(prg) THEN s0
    ELSE Only({
        IF s.rn[i].pos < 0 /\ U32(0 - s.rn[i].pos) >= s.len
        THEN RenderWait(s, i)
        ELSE RenderLoop(RenderNode(RenderWait(s, i), i), i + 1)
        : s \in {s0} })

----------------------------------------------------------------------------
(* MGS_create_Generator / init_for_nodelist. *)
InitGenFor(p) ==
    /\ prg = p
    /\ run_nodes = [i \in 1..Len(p) |->
                       [pos |-> 0 - p[i].delay, status |-> {},
                        ref_prev |-> p[i].ref_prev]]
    /\ sound_nodes = [i \in 1..Len(p) |->
                         [time |-> IF p[i].ref_prev = 0 THEN p[i].time ELSE 0,
                          type |-> "TOP",
                          fmodchain |-> 0, pmodchain |-> 0, amodchain |-> 0,
                          link |-> IF p[i].ref_prev = 0
                                      /\ p[i].nested_next # 0
                                   THEN SoundOf(p, p[i].nested_next) ELSE 0]]
    /\ delay_offs = 0
    /\ time_flags = {}
    /\ runn_i = 1
    /\ bufc = 0
    /\ bufs_short = FALSE
    /\ gpc = "idle"
    /\ len = 0
    /\ skiplen = 0
    /\ totlen = 0
    /\ gen_len = 0
    /\ ret = TRUE
    /\ written = 0
    /\ base = 0
    /\ rend_end = [i \in 1..Len(p) |-> 0]
    /\ due = [i \in 1..Len(p) |-> IF p[i].delay = 0 THEN 0 ELSE 0 - 1]

(* produce_sound calls MGS_Generator_run with a block length. *)
CallRun ==
    /\ gpc = "idle"
    /\ \E l \in 1..MaxLen :
          /\ len' = l
          /\ totlen' = l
    /\ skiplen' = 0
    /\ gpc' = "process"
    /\ UNCHANGED parseVars
    /\ UNCHANGED libVars
    /\ UNCHANGED <<prg, run_nodes, sound_nodes, delay_offs, time_flags, runn_i,
                   bufc, bufs_short, gen_len, ret, written, base, rend_end,
                   due, runp>>

(* ProcessPass with adjust_time storing the snapped time in the program   *)
(* node as well as in the sound node.                                     *)
ProcessPassWritesProgram ==
    /\ gpc = "process"
    /\ \E s2 \in {RenderLoop(PrepareLoop(GenState, runn_i), runn_i)} :
          /\ run_nodes' = s2.rn
          /\ sound_nodes' = s2.sn
          /\ delay_offs' = s2.doffs
          /\ time_flags' = s2.tf
          /\ bufc' = s2.bufc
          /\ bufs_short' = s2.short
          /\ rend_end' = s2.rend
          /\ due' = s2.due
          /\ base' = base + s2.off + s2.len
          /\ skiplen' = s2.skiplen
          /\ len' = IF s2.skiplen # 0 THEN s2.skiplen ELSE s2.len
          /\ gpc' = IF s2.skiplen # 0 THEN "process" ELSE "return"
          /\ prg' = [i \in 1..Len(prg) |->
                        IF prg[i].ref_prev = 0
                        THEN [prg[i] EXCEPT !.time = s2.sn[i].time]
                        ELSE prg[i]]
    /\ UNCHANGED parseVars
    /\ UNCHANGED libVars
    /\ UNCHANGED <<runn_i, totlen, gen_len, ret, written, runp>>

(* One pass from the PROCESS label to the skiplen test. *)
ProcessPass ==
    /\ gpc = "process"
    /\ \E s2 \in {RenderLoop(PrepareLoop(GenState, runn_i), runn_i)} :
          /\ run_nodes' = s2.rn
          /\ sound_nodes' = s2.sn
          /\ delay_offs' = s2.doffs
          /\ time_flags' = s2.tf
          /\ bufc' = s2.bufc
          /\ bufs_short' = s2.short
          /\ rend_end' = s2.rend
          /\ due' = s2.due
          /\ base' = base + s2.off + s2.len
          /\ skiplen' = s2.skiplen
          /\ len' = IF s2.skiplen # 0 THEN s2.skiplen ELSE s2.len
          /\ gpc' = IF s2.skiplen # 0 THEN "process" ELSE "return"
    /\ UNCHANGED parseVars
    /\ UNCHANGED libVars
    /\ UNCHANGED <<prg, runn_i, totlen, gen_len, ret, written, runp>>

RECURSIVE SkipFinishedZeroTime(_)
(* SkipFinished that also steps over an unprepared node with no time. *)
SkipFinishedZeroTime(i) ==
    IF i > Len(prg) THEN i
    ELSE IF "ACTIVE" \in run_nodes[i].status
            \/ ("PREPARED" \notin run_nodes[i].status
                /\ ~("TIME" \in prg[i].params /\ prg[i].time = 0))
         THEN i
         ELSE SkipFinishedZeroTime(i + 1)

RECURSIVE SkipFinished(_)
(* The closing loop of MGS_Generator_run: step over the finished nodes. *)
SkipFinished(i) ==
    IF i > Len(prg) THEN i
    ELSE IF "PREPARED" \notin run_nodes[i].status
            \/ "ACTIVE" \in run_nodes[i].status
         THEN i
         ELSE SkipFinished(i + 1)

(* The end of MGS_Generator_run: report the length and the run status. *)
ReturnRun ==
    /\ gpc = "return"
    /\ gen_len' = totlen
    /\ runn_i' = SkipFinished(runn_i)
    /\ ret' = (SkipFinished(runn_i) <= Len(prg))
    /\ gpc' = "write"
    /\ UNCHANGED parseVars
    /\ UNCHANGED libVars
    /\ UNCHANGED <<prg, run_nodes, sound_nodes, delay_offs, time_flags, bufc,
                   bufs_short, len, skiplen, totlen, written, base, rend_end,
                   due, runp>>

(* produce_sound: hand the generated frames to the sinks, loop while run. *)
produce_sound ==
    /\ gpc = "write"
    /\ written' = written + gen_len
    /\ gpc' = IF ret THEN "idle" ELSE "done"
    /\ UNCHANGED parseVars
    /\ UNCHANGED libVars
    /\ UNCHANGED <<prg, run_nodes, sound_nodes, delay_offs, time_flags, runn_i,
                   bufc, bufs_short, len, skiplen, totlen, gen_len, ret, base,
                   rend_end, due, runp>>

(* The generator before it is given a program. *)
GenIdle == InitGenFor(<<>>) /\ runp = RunIdle

InitGen == ParseIdle /\ LibIdle /\ runp = RunIdle /\ \E p \in Programs : InitGenFor(p)

NextGen == CallRun \/ ProcessPass \/ ReturnRun \/ produce_sound

SpecGen == InitGen /\ [][NextGen]_vars

(* The caller's loop always takes its next step. *)
FairSpecGen == SpecGen /\ WF_vars(NextGen)

----------------------------------------------------------------------------
(* run_program: open the outputs, render, close the outputs.               *)

(* Sample rates, requested or negotiated by the audio device. *)
Rates == {1, 2, 3}

(* produce_audio: one rendering of the program at a rate, to the outputs   *)
(* given; err tells whether a write to an output failed.                   *)
produce_audio(r, ad, wf, rate, err) ==
    [r EXCEPT !.renders = Append(@, [ad |-> ad, wf |-> wf, srate |-> rate,
                                     error |-> err]),
              !.status = ~err]

(* SGS_open_AudioDev, if the device is used: it fails, or negotiates a     *)
(* rate.                                                                   *)
RunOpenAudioDev ==
    /\ runp.pc = "open_ad"
    /\ \/ /\ ~runp.use_audiodev
          /\ runp' = [runp EXCEPT !.pc = "open_wf"]
       \/ /\ runp.use_audiodev
          /\ \/ runp' = [runp EXCEPT !.pc = "returned", !.ret = FALSE]
             \/ \E rate \in Rates :
                   runp' = [runp EXCEPT !.ad = TRUE, !.ad_srate = rate,
                                        !.pc = "open_wf"]
    /\ UNCHANGED parseVars
    /\ UNCHANGED libVars
    /\ UNCHANGED <<prg, run_nodes, sound_nodes, delay_offs, time_flags, runn_i,
                   bufc, bufs_short, gpc, len, skiplen, totlen, gen_len, ret,
                   written, base, rend_end, due>>

(* SGS_create_WAVFile, if a path is given: on failure the device is closed *)
(* and run_program returns.                                                *)
RunCreateWAVFile ==
    /\ runp.pc = "open_wf"
    /\ \/ /\ ~runp.wav_path
          /\ runp' = [runp EXCEPT !.pc = "render"]
       \/ /\ runp.wav_path
          /\ \/ runp' = [runp EXCEPT
                            !.closed = IF runp.ad THEN {"ad"} ELSE {},
                            !.pc = "returned", !.ret = FALSE]
             \/ runp' = [runp EXCEPT !.wf = TRUE, !.pc = "render"]
    /\ UNCHANGED parseVars
    /\ UNCHANGED libVars
    /\ UNCHANGED <<prg, run_nodes, sound_nodes, delay_offs, time_flags, runn_i,
                   bufc, bufs_short, gpc, len, skiplen, totlen, gen_len, ret,
                   written, base, rend_end, due>>

(* The rendering, or with both outputs at different rates the first of    *)
(* two: that for the device.  `status && produce_audio(...)` makes the    *)
(* second one only if the first reported no error.                        *)
RunProduce ==
    /\ runp.pc = "render"
    /\ \E err \in (IF runp.ad \/ runp.wf THEN BOOLEAN ELSE {FALSE}) :
          runp' =
             IF runp.ad /\ runp.wf /\ runp.ad_srate # runp.srate
             THEN [produce_audio(runp, TRUE, FALSE, runp.ad_srate, err)
                      EXCEPT !.pc = IF err THEN "close" ELSE "render2"]
             ELSE [produce_audio(runp, runp.ad, runp.wf, runp.ad_srate, err)
                      EXCEPT !.pc = "close"]
    /\ UNCHANGED parseVars
    /\ UNCHANGED libVars
    /\ UNCHANGED <<prg, run_nodes, sound_nodes, delay_offs, time_flags, runn_i,
                   bufc, bufs_short, gpc, len, skiplen, totlen, gen_len, ret,
                   written, base, rend_end, due>>

(* The second rendering, for the file at the requested rate. *)
RunProduceSecond ==
    /\ runp.pc = "render2"
    /\ \E err \in BOOLEAN :
          runp' = [produce_audio(runp, FALSE, TRUE, runp.srate, err)
                      EXCEPT !.status = runp.status /\ ~err, !.pc = "close"]
    /\ UNCHANGED parseVars
    /\ UNCHANGED libVars
    /\ UNCHANGED <<prg, run_nodes, sound_nodes, delay_offs, time_flags, runn_i,
                   bufc, bufs_short, gpc, len, skiplen, totlen, gen_len, ret,
                   written, base, rend_end, due>>

(* The outputs are closed; a failing close of the file fails the run. *)
RunClose ==
    /\ runp.pc = "close"
    /\ \E close_ok \in (IF runp.wf THEN BOOLEAN ELSE {TRUE}) :
          runp' = [runp EXCEPT
                      !.closed = (IF runp.ad THEN {"ad"} ELSE {})
                                 \cup (IF runp.wf THEN {"wf"} ELSE {}),
                      !.status = runp.status /\ close_ok,
                      !.ret = runp.status /\ close_ok,
                      !.pc = "returned"]
    /\ UNCHANGED parseVars
    /\ UNCHANGED libVars
    /\ UNCHANGED <<prg, run_nodes, sound_nodes, delay_offs, time_flags, runn_i,
                   bufc, bufs_short, gpc, len, skiplen, totlen, gen_len, ret,
                   written, base, rend_end, due>>

(* main calls run_program with the options of the command line. *)
InitRun ==
    /\ ParseIdle
    /\ LibIdle
    /\ InitGenFor(<<>>)
    /\ \E a \in BOOLEAN, w \in BOOLEAN, rate \in Rates :
          runp = [RunIdle EXCEPT !.pc = "open_ad", !.use_audiodev = a,
                                 !.wav_path = w, !.srate = rate,
                                 !.ad_srate = rate]

NextRun ==
    \/ RunOpenAudioDev \/ RunCreateWAVFile \/ RunProduce \/ RunProduceSecond
    \/ RunClose

SpecRun == InitRun /\ [][NextRun]_vars

(* Programs with modulators.  Every node plays MaxTime samples; a node may *)
(* name a modulator chain of each kind and a next node of its own chain.   *)
(* The nodes node i of n can be: its chains and its next node are later    *)
(* nodes, and a reference carries no next node.                            *)
ModNodeChoices(i, n) ==
    LET later == {0} \cup ((i + 1)..n)
        ModSets == {{}, {"PMODS"}, {"FMODS"}, {"AMODS"}, {"PMODS", "FMODS"}}
    IN { nd \in [delay : 0..MaxDelay, time : {MaxTime}, snap : {0},
                 params : { {"TIME", "FREQ"} \cup m : m \in ModSets }
                          \cup ModSets,
                 ref_prev : 0..(i - 1),
                 fmod : later, pmod : later, amod : later,
                 nested_next : later, root_id : {0}] :
           /\ (nd.ref_prev = 0 <=> "TIME" \in nd.params)
           /\ (nd.fmod # 0 <=> "FMODS" \in nd.params)
           /\ (nd.pmod # 0 <=> "PMODS" \in nd.params)
           /\ (nd.amod # 0 <=> "AMODS" \in nd.params)
           /\ (nd.ref_prev # 0 => nd.nested_next = 0) }

RECURSIVE ModNodeLists(_, _)
(* The node lists of nodes i..n. *)
ModNodeLists(i, n) ==
    IF i > n THEN {<<>>}
    ELSE { <<nd>> \o r : nd \in ModNodeChoices(i, n), r \in ModNodeLists(i + 1, n) }

(* The links of node i to chain nodes: chain heads and its next node. *)
LinksOf(p, i) ==
    (IF p[i].fmod # 0 THEN {<<"f", p[i].fmod>>} ELSE {})
    \cup (IF p[i].pmod # 0 THEN {<<"p", p[i].pmod>>} ELSE {})
    \cup (IF p[i].amod # 0 THEN {<<"a", p[i].amod>>} ELSE {})
    \cup (IF p[i].nested_next # 0 THEN {<<"n", p[i].nested_next>>} ELSE {})

(* The nodes that name node j as the head of a chain or as the next node   *)
(* of their chain.                                                         *)
OwnersOf(p, j) == { i \in 1..Len(p) : \E l \in LinksOf(p, i) : l[2] = j }

(* Chains are written inside the node that owns them: a chain node is a    *)
(* new node named by one link of one earlier node, and only a chain node   *)
(* has a next node.                                                        *)
ModWellFormed(p) ==
    /\ WellFormed(p)
    /\ \A i \in 1..Len(p) :
          /\ \A l \in LinksOf(p, i) : p[l[2]].ref_prev = 0
          /\ Cardinality(OwnersOf(p, i)) <= 1
          /\ Cardinality(LinksOf(p, i))
               = Cardinality({ l[2] : l \in LinksOf(p, i) })
          /\ (p[i].nested_next # 0 => OwnersOf(p, i) # {})

RECURSIVE RootIdOf(_, _)
(* root_id: a top node is its own root, a chain node has the root of its   *)
(* owner, a reference that of the node it refers to.                       *)
RootIdOf(p, i) ==
    IF p[i].ref_prev # 0 THEN RootIdOf(p, p[i].ref_prev)
    ELSE IF OwnersOf(p, i) = {} THEN i
    ELSE RootIdOf(p, Only(OwnersOf(p, i)))

ModPrograms ==
    UNION { { [i \in 1..n |-> [p[i] EXCEPT !.root_id = RootIdOf(p, i)]]
              : p \in { q \in ModNodeLists(1, n) : ModWellFormed(q) } }
            : n \in 1..MaxNodes }

InitBufs ==
    ParseIdle /\ LibIdle /\ runp = RunIdle /\ \E p \in ModPrograms : InitGenFor(p)

SpecBufs == InitBufs /\ [][NextGen]_vars

(* run_block and run_block_waveenv on a tree of sound nodes.  What they    *)
(* compute here is the highest index into bufs that they read or write:    *)
(* bufs is the index of their first buffer, first tells the pass for the   *)
(* node they were called with from a pass for a linked node.               *)
MaxTree == 8

RECURSIVE run_block(_, _, _, _), run_block_waveenv(_, _, _, _)
run_block(sn, n, bufs, first) ==
    LET freq == IF first THEN bufs ELSE bufs + 1
        amp == freq + 1
        pm == amp + 1
        fmod == IF sn[n].fmodchain # 0
                THEN run_block_waveenv(sn, sn[n].fmodchain, amp, TRUE)
                ELSE freq
        amod == IF sn[n].amodchain # 0
                THEN run_block_waveenv(sn, sn[n].amodchain, amp, TRUE)
                ELSE amp
        pmod == IF sn[n].pmodchain # 0
                THEN Max(pm, run_block(sn, sn[n].pmodchain, pm, TRUE))
                ELSE amp
        linked == IF sn[n].link # 0
                  THEN run_block(sn, sn[n].link, bufs, FALSE)
                  ELSE amp
    IN Max(Max(amp, fmod), Max(amod, Max(pmod, linked)))

run_block_waveenv(sn, n, bufs, first) ==
    LET freq == IF first THEN bufs ELSE bufs + 1
        pm == freq + 1
        fmod == IF sn[n].fmodchain # 0
                THEN Max(pm, run_block_waveenv(sn, sn[n].fmodchain, pm, TRUE))
                ELSE freq
        pmod == IF sn[n].pmodchain # 0
                THEN Max(pm, run_block(sn, sn[n].pmodchain, pm, TRUE))
                ELSE freq
        linked == IF sn[n].link # 0
                  THEN run_block_waveenv(sn, sn[n].link, bufs, FALSE)
                  ELSE freq
    IN Max(Max(freq, fmod), Max(pmod, linked))

(* A sound node without modulators; it records its parent and whether     *)
(* run_block_waveenv is the function that runs it.                         *)
SoundLeaf(par, wave) ==
    [fmodchain |-> 0, amodchain |-> 0, pmodchain |-> 0, link |-> 0,
     par |-> par, wave |-> wave]

(* The trees with one node more than the tree t, its nodes numbered in the *)
(* order a walk visits them (fmodchain, amodchain, pmodchain, link).  The  *)
(* top node has no link, and a node run by run_block_waveenv has no        *)
(* amodchain, which that function does not read.                           *)
Extensions(t) ==
    LET Rank(nd) == IF nd.link # 0 THEN 4 ELSE IF nd.pmodchain # 0 THEN 3
                    ELSE IF nd.amodchain # 0 THEN 2
                    ELSE IF nd.fmodchain # 0 THEN 1 ELSE 0
        Attach(q, c) ==
            LET m == Len(t) + 1
                wave == IF c \in {1, 2} THEN TRUE
                        ELSE IF c = 3 THEN FALSE ELSE t[q].wave
                t1 == Append(t, SoundLeaf(q, wave))
            IN IF c = 1 THEN [t1 EXCEPT ![q].fmodchain = m]
               ELSE IF c = 2 THEN [t1 EXCEPT ![q].amodchain = m]
               ELSE IF c = 3 THEN [t1 EXCEPT ![q].pmodchain = m]
               ELSE [t1 EXCEPT ![q].link = m]
        Path[j \in 0..Len(t)] ==
            IF j = 0 THEN {} ELSE {j} \cup Path[t[j].par]
    IN { Attach(x[1], x[2]) :
         x \in { y \in Path[Len(t)] \X (1..4) :
                     /\ y[2] > Rank(t[y[1]])
                     /\ ~(y[2] = 4 /\ y[1] = 1)
                     /\ ~(y[2] = 2 /\ t[y[1]].wave) } }

(* The trees of n sound nodes. *)
SoundTrees[n \in 1..MaxTree] ==
    IF n = 1 THEN {<<SoundLeaf(0, FALSE)>>}
    ELSE UNION {Extensions(t) : t \in SoundTrees[n - 1]}

(* A generator is given a tree of at most MaxTree sound nodes under one    *)
(* top-level operator, node 1.                                             *)
InitBlock ==
    /\ ParseIdle /\ GenIdle
    /\ \E n \in 1..(MaxTree - 1) : \E t \in SoundTrees[n] :
          \E u \in (IF n = 1 THEN {t} ELSE {}) \cup Extensions(t) :
              blk = [pc |-> "new", sn |-> u, bufc |-> 0, hi |-> 0]
    /\ cli = [pc |-> "off"]
    /\ va = [pc |-> "off"]
    /\ nl = [pc |-> "off"]

(* MGS_Generator_prepare_node sizes o->bufs for the top-level operator. *)
UpsizeBufs ==
    /\ blk.pc = "new"
    /\ blk' = [blk EXCEPT !.bufc = upsize_bufs(blk.sn, @, 1), !.pc = "sized"]
    /\ UNCHANGED <<genVars, parseVars, cli, va, nl>>

(* run_node calls run_block with o->bufs for the top-level operator. *)
RunBlock ==
    /\ blk.pc = "sized"
    /\ blk' = [blk EXCEPT !.hi = run_block(blk.sn, 1, 0, TRUE), !.pc = "run"]
    /\ UNCHANGED <<genVars, parseVars, cli, va, nl>>

NextBlock == UpsizeBufs \/ RunBlock

SpecBlock == InitBlock /\ [][NextBlock]_vars

----------------------------------------------------------------------------
(* The command line of saugns.c.  An argv word is a flag, a positive       *)
(* number ("1") or another word ("s", a script path or a file name).       *)
MaxArgs == 4

RECURSIVE parse_args(_, _)
(* parse_args from argv[k] on, for the record c of main's variables; ok is *)
(* the return value.  USAGE prints the usage and clears the script list;   *)
(* -v prints the version and clears it.                                    *)
parse_args(c, k) ==
    LET arg == c.argv[k]
        more == k < Len(c.argv)
        USAGE == [c EXCEPT !.usage = TRUE, !.script_args = 0, !.ok = FALSE]
        with(fl) == [c EXCEPT !.options = @ \cup fl]
    IN IF k > Len(c.argv)
       THEN IF c.script_args = 0 THEN USAGE
            ELSE [c EXCEPT !.ok = TRUE]
       ELSE CASE arg \in {"s", "1"} ->
                   parse_args([c EXCEPT !.script_args = @ + 1], k + 1)
              [] arg = "-a" ->
                   IF c.options \cap {"DISABLE_AUDIO_DEV", "ONLY_CHECK"} # {}
                   THEN USAGE
                   ELSE parse_args(with({"DO_RUN", "ENABLE_AUDIO_DEV"}), k + 1)
              [] arg = "-c" ->
                   IF "DO_RUN" \in c.options THEN USAGE
                   ELSE parse_args(with({"ONLY_CHECK"}), k + 1)
              [] arg = "-e" -> parse_args(with({"EVAL_STRING"}), k + 1)
              [] arg = "-h" -> USAGE
              [] arg = "-m" ->
                   IF c.options \cap {"ENABLE_AUDIO_DEV", "ONLY_CHECK"} # {}
                   THEN USAGE
                   ELSE parse_args(with({"DO_RUN", "DISABLE_AUDIO_DEV"}), k + 1)
              [] arg = "-o" ->
                   IF "ONLY_CHECK" \in c.options \/ ~more THEN USAGE
                   ELSE parse_args([with({"DO_RUN"}) EXCEPT !.wav_path = TRUE],
                                   k + 2)
              [] arg = "-p" -> parse_args(with({"PRINT_INFO"}), k + 1)
              [] arg = "-r" ->
                   IF "ONLY_CHECK" \in c.options \/ ~more
                      \/ c.argv[k + 1] # "1"
                   THEN USAGE
                   ELSE parse_args([with({"DO_RUN"}) EXCEPT !.srate = 1],
                                   k + 2)
              [] arg = "-v" ->
                   [c EXCEPT !.version = TRUE, !.script_args = 0, !.ok = FALSE]

(* main is called with a command line of at most MaxArgs words. *)
InitMain ==
    /\ ParseIdle /\ GenIdle
    /\ blk = [pc |-> "off", sn |-> <<>>, bufc |-> 0, hi |-> 0]
    /\ va = [pc |-> "off"]
    /\ nl = [pc |-> "off"]
    /\ \E n \in 0..MaxArgs :
          \E argv \in [1..n -> {"-a", "-c", "-e", "-h", "-m", "-o", "-p", "-r",
                                "-v", "s", "1"}] :
              cli = [pc |-> "parse_args", argv |-> argv, options |-> {},
                     script_args |-> 0, wav_path |-> FALSE, srate |-> 0,
                     usage |-> FALSE, version |-> FALSE, ok |-> FALSE,
                     built |-> 0, prg_objs |-> 0, rendered |-> 0,
                     render_error |-> FALSE, status |-> 0]

(* main going on to build whatever parse_args returns. *)
MainIgnoresParseArgs ==
    /\ cli.pc = "parse_args"
    /\ \E c \in {parse_args(cli, 1)} :
          cli' = [c EXCEPT !.pc = "build", !.status = 0]
    /\ UNCHANGED <<genVars, parseVars, blk, va, nl>>

(* main calls parse_args and returns 0 if it fails. *)
MainParseArgs ==
    /\ cli.pc = "parse_args"
    /\ \E c \in {parse_args(cli, 1)} :
          cli' = [c EXCEPT !.pc = IF c.ok THEN "build" ELSE "exit",
                           !.status = 0]
    /\ UNCHANGED <<genVars, parseVars, blk, va, nl>>

(* main calls build: SAU_build makes a program of each script that passes  *)
(* its checks and fails if none does; with -c the programs are discarded.  *)
(* main returns 1 if build fails, 0 if no program is left.                 *)
MainBuild ==
    /\ cli.pc = "build"
    /\ \E n \in 0..cli.script_args :
          cli' = [cli EXCEPT
                     !.built = n,
                     !.prg_objs = IF "ONLY_CHECK" \in cli.options THEN 0
                                  ELSE n,
                     !.status = IF n = 0 THEN 1 ELSE 0,
                     !.pc = IF n = 0 \/ "ONLY_CHECK" \in cli.options
                            THEN "exit" ELSE "render"]
    /\ UNCHANGED <<genVars, parseVars, blk, va, nl>>

(* main returning 0 after render whatever SAU_render reports. *)
MainRenderIgnoresError ==
    /\ cli.pc = "render"
    /\ \E error \in BOOLEAN :
          cli' = [cli EXCEPT !.rendered = cli.prg_objs,
                             !.render_error = error,
                             !.status = 0,
                             !.pc = "exit"]
    /\ UNCHANGED <<genVars, parseVars, blk, va, nl>>

(* main calls render for the programs and returns 1 if SAU_render reports  *)
(* an error.                                                               *)
MainRender ==
    /\ cli.pc = "render"
    /\ \E error \in BOOLEAN :
          cli' = [cli EXCEPT !.rendered = cli.prg_objs,
                             !.render_error = error,
                             !.status = IF error THEN 1 ELSE 0,
                             !.pc = "exit"]
    /\ UNCHANGED <<genVars, parseVars, blk, va, nl>>

SpecMain == InitMain /\ [][MainParseArgs \/ MainBuild \/ MainRender]_vars

----------------------------------------------------------------------------
(* The program builder's incremental voice allocation.  An event node is   *)
(* a record of wait_ms, voice_prev (an earlier event, 0 for none),         *)
(* later_used (EN_VOICE_LATER_USED of en_flags), graph (SGS_GRAPH of       *)
(* voice_params), operators (the time_ms of each operator included in the  *)
(* event) and voice_id.  Voice ids count from 0; data[v + 1] is the        *)
(* VoiceAllocData of voice v.  The times are small, so the uint32_t and    *)
(* int32_t arithmetic of the source does not wrap.                         *)

MaxEvents == 3
MaxWait == 2

(* The longest time_ms among the operators included in the event. *)
voice_duration(ve) ==
    LET duration_ms[i \in 0..Len(ve.operators)] ==
            IF i = 0 THEN 0
            ELSE IF ve.operators[i] > duration_ms[i - 1]
                 THEN ve.operators[i] ELSE duration_ms[i - 1]
    IN  duration_ms[Len(ve.operators)]

(* voice_alloc_inc for event e of v.events: the wait is taken off every    *)
(* voice's remaining duration; the event gets the voice of its voice_prev, *)
(* else the first voice whose last event is not used later and whose       *)
(* duration has run out, else a new one; the voice's duration is set anew  *)
(* only if the event has SGS_GRAPH.                                        *)
voice_alloc_inc(v, e) ==
    LET ev == v.events[e]
        waited == [i \in 1..Len(v.data) |->
                     [v.data[i] EXCEPT !.duration_ms =
                         IF @ < ev.wait_ms THEN 0 ELSE @ - ev.wait_ms]]
        free == {i \in 1..Len(waited) :
                   /\ ~v.events[waited[i].last].later_used
                   /\ waited[i].duration_ms = 0}
        voice == IF ev.voice_prev # 0 THEN v.events[ev.voice_prev].voice_id
                 ELSE IF free # {}
                      THEN (CHOOSE i \in free : \A j \in free : i <= j) - 1
                      ELSE Len(waited)
        grown == IF voice = Len(waited)
                 THEN Append(waited, [last |-> 0, duration_ms |-> 0])
                 ELSE waited
    IN  [v EXCEPT
            !.events[e].voice_id = voice,
            !.data = [grown EXCEPT ![voice + 1] =
                         [last |-> e,
                          duration_ms |-> IF ev.graph THEN voice_duration(ev)
                                          ELSE @.duration_ms]]]

(* SGS_build_program is given a list of at most MaxEvents event nodes.     *)
(* An event without voice_prev starts a voice and has SGS_GRAPH and an     *)
(* operator; an event is the voice_prev of at most one later event, and    *)
(* has EN_VOICE_LATER_USED exactly if it is one.  voice_alloc_init leaves  *)
(* no voice.                                                               *)
InitVoices ==
    /\ ParseIdle /\ GenIdle
    /\ blk = [pc |-> "off", sn |-> <<>>, bufc |-> 0, hi |-> 0]
    /\ cli = [pc |-> "off"]
    /\ nl = [pc |-> "off"]
    /\ \E n \in 1..MaxEvents :
          \E wait \in [1..n -> 0..MaxWait],
             prev \in [1..n -> 0..(n - 1)],
             graph \in [1..n -> BOOLEAN],
             times \in [1..n -> {<<1>>, <<3>>, <<1, 3>>, <<3, 1>>}] :
              /\ \A k \in 1..n : prev[k] < k /\ (prev[k] = 0 => graph[k])
              /\ \A j, k \in 1..n : j # k /\ prev[j] # 0 => prev[j] # prev[k]
              /\ va = [pc |-> "convert",
                       events |-> [k \in 1..n |->
                           [wait_ms |-> wait[k], voice_prev |-> prev[k],
                            later_used |-> \E j \in 1..n : prev[j] = k,
                            graph |-> graph[k], operators |-> times[k],
                            voice_id |-> 0]],
                       data |-> <<>>,
                       oe |-> <<>>]

(* program_convert_enode for the next event of the list: the output event  *)
(* gets the voice id voice_alloc_inc returns, the event's wait_ms and its  *)
(* voice_params.  The operator ids it also allocates are left out.         *)
ConvertEnode ==
    /\ va.pc = "convert"
    /\ \E e \in {Len(va.oe) + 1} : \E v \in {voice_alloc_inc(va, e)} :
          va' = [v EXCEPT
                    !.oe = Append(@, [voice_id |-> v.events[e].voice_id,
                                      wait_ms |-> v.events[e].wait_ms,
                                      graph |-> v.events[e].graph]),
                    !.pc = IF e = Len(v.events) THEN "done" ELSE "convert"]
    /\ UNCHANGED <<genVars, parseVars, blk, cli, nl>>

SpecVoices == InitVoices /\ [][ConvertEnode]_vars

(* C29: an event that continues a voice has the id of its voice_prev, and  *)
(* an event that starts a voice has an id no earlier event with an         *)
(* operator still sounding at its time has: for every earlier event with   *)
(* the same id, each of its operators has ended (the event's time plus the *)
(* operator's time_ms is not after the new event's time).                  *)
C29_VoiceIdFreeWhenGiven ==
    va.pc \in {"convert", "done"} =>
        LET at[k \in 0..Len(va.events)] ==
                IF k = 0 THEN 0 ELSE at[k - 1] + va.events[k].wait_ms
        IN  \A k \in 1..Len(va.oe) :
                IF va.events[k].voice_prev # 0
                THEN va.oe[k].voice_id = va.oe[va.events[k].voice_prev].voice_id
                ELSE \A j \in 1..(k - 1) :
                        va.oe[j].voice_id = va.oe[k].voice_id =>
                            \A i \in 1..Len(va.events[j].operators) :
                                at[j] + va.events[j].operators[i] <= at[k]

----------------------------------------------------------------------------
(* The node list module.  nl.pool is the memory pool's SAU_NodeRef items   *)
(* by id (0 is NULL), each with data, next, mode and list_type; nl.ol is   *)
(* the source list and nl.cp its copy, each with refs, new_refs, last_ref  *)
(* and type.  Memory from the pool is zeroed, so a new item's next is      *)
(* NULL.  nl.src_items and nl.added record the source's items at the time  *)
(* of the copy and the data added to the copy since; nl.visited is what    *)
(* data_f was called with.                                                 *)

MaxItems == 3

(* SAU_NodeList_add adding the item to the end of the chain the list       *)
(* shares, where the source un-shallows the copy.                          *)
NodeList_add_shared(pool, ol, data, ref_mode) ==
    LET ref == Len(pool) + 1
        item == [data |-> data, next |-> 0, mode |-> ref_mode,
                 list_type |-> ol.type]
        last[r \in 1..Len(pool)] ==
            IF pool[r].next = 0 THEN r ELSE last[pool[r].next]
    IN  IF ol.refs = 0
        THEN [pool |-> Append(pool, item),
              ol |-> [ol EXCEPT !.refs = ref, !.new_refs = ref,
                                !.last_ref = ref]]
        ELSE [pool |-> [Append(pool, item) EXCEPT
                           ![IF ol.new_refs = 0 THEN last[ol.refs]
                             ELSE ol.last_ref].next = ref],
              ol |-> [ol EXCEPT !.new_refs = IF @ = 0 THEN ref ELSE @,
                                !.last_ref = ref]]

(* SAU_NodeList_add: a new item for data; it becomes the first item of an  *)
(* empty list; a list that only has copied items first gets duplicates of  *)
(* them, linked in the same order, with the new item after the last; else  *)
(* the new item is linked after last_ref.  The result is the pool and the  *)
(* list.                                                                   *)
NodeList_add(pool, ol, data, ref_mode) ==
    LET ref == Len(pool) + 1
        item == [data |-> data, next |-> 0, mode |-> ref_mode,
                 list_type |-> ol.type]
        chain[r \in 0..Len(pool)] ==
            IF r = 0 THEN <<>> ELSE <<r>> \o chain[pool[r].next]
        src == chain[ol.refs]
        dups == [i \in 1..Len(src) |->
                    [pool[src[i]] EXCEPT
                        !.next = IF i < Len(src) THEN ref + i + 1 ELSE ref]]
    IN  IF ol.refs = 0
        THEN [pool |-> Append(pool, item),
              ol |-> [ol EXCEPT !.refs = ref, !.new_refs = ref,
                                !.last_ref = ref]]
        ELSE IF ol.new_refs = 0
        THEN [pool |-> Append(pool, item) \o dups,
              ol |-> [ol EXCEPT !.refs = ref + 1, !.new_refs = ref,
                                !.last_ref = ref]]
        ELSE [pool |-> [Append(pool, item) EXCEPT ![ol.last_ref].next = ref],
              ol |-> [ol EXCEPT !.last_ref = ref]]

(* SAU_create_NodeList has made an empty source list; there is no copy. *)
InitList ==
    /\ ParseIdle /\ GenIdle
    /\ blk = [pc |-> "off", sn |-> <<>>, bufc |-> 0, hi |-> 0]
    /\ cli = [pc |-> "off"]
    /\ va = [pc |-> "off"]
    /\ \E list_type \in {"OPERATORS", "FMODS"} :
          nl = [pc |-> "build", pool |-> <<>>,
                ol |-> [refs |-> 0, new_refs |-> 0, last_ref |-> 0,
                        type |-> list_type],
                cp |-> [refs |-> 0, new_refs |-> 0, last_ref |-> 0,
                        type |-> "NONE"],
                src_items |-> <<>>, added |-> <<>>, visited |-> <<>>]

(* A call of SAU_NodeList_add on the source list before it is copied, or   *)
(* on the copy after.                                                      *)
AddItem ==
    /\ nl.pc \in {"build", "copied"}
    /\ \E data \in 1..2, ref_mode \in {"UPDATE", "ADD"} :
          IF nl.pc = "build"
          THEN /\ Len(nl.pool) < MaxItems
               /\ \E r \in {NodeList_add(nl.pool, nl.ol, data, ref_mode)} :
                     nl' = [nl EXCEPT !.pool = r.pool, !.ol = r.ol]
          ELSE /\ Len(nl.added) < MaxItems
               /\ \E r \in {NodeList_add(nl.pool, nl.cp, data, ref_mode)} :
                     nl' = [nl EXCEPT !.pool = r.pool, !.cp = r.ol,
                                      !.added = Append(@, data)]
    /\ UNCHANGED <<genVars, parseVars, blk, cli, va>>

(* SAU_copy_NodeList from the source list, which is not NULL: the copy     *)
(* shares the source's items and has no items of its own.                  *)
CopyNodeList ==
    /\ nl.pc = "build"
    /\ LET items[r \in 0..Len(nl.pool)] ==
               IF r = 0 THEN <<>>
               ELSE <<nl.pool[r].data>> \o items[nl.pool[r].next]
       IN  nl' = [nl EXCEPT !.cp = [refs |-> nl.ol.refs, new_refs |-> 0,
                                    last_ref |-> 0, type |-> nl.ol.type],
                            !.src_items = items[nl.ol.refs],
                            !.pc = "copied"]
    /\ UNCHANGED <<genVars, parseVars, blk, cli, va>>

(* SAU_NodeList_fornew on the copy: data_f is called on the data of each   *)
(* item from new_refs on.                                                  *)
Fornew ==
    /\ nl.pc = "copied"
    /\ LET items[r \in 0..Len(nl.pool)] ==
               IF r = 0 THEN <<>>
               ELSE <<nl.pool[r].data>> \o items[nl.pool[r].next]
       IN  nl' = [nl EXCEPT !.visited = items[nl.cp.new_refs], !.pc = "done"]
    /\ UNCHANGED <<genVars, parseVars, blk, cli, va>>

SpecList == InitList /\ [][AddItem \/ CopyNodeList \/ Fornew]_vars

(* C30: once the copy is made, whatever has been added to the copy, the    *)
(* items of the source list are those it had when it was copied; the items *)
(* of the copy are those followed by the added ones in the order they were *)
(* added; and SAU_NodeList_fornew on the copy has visited exactly the      *)
(* added ones, in that order.                                              *)
C30_CopyLeavesSource ==
    nl.pc \in {"copied", "done"} =>
        LET items[r \in 0..Len(nl.pool)] ==
                IF r = 0 THEN <<>>
                ELSE <<nl.pool[r].data>> \o items[nl.pool[r].next]
        IN  /\ items[nl.ol.refs] = nl.src_items
            /\ items[nl.cp.refs] = nl.src_items \o nl.added
            /\ nl.pc = "done" => nl.visited = nl.added

C30_Witness ==
    /\ nl.pc = "done"
    /\ Len(nl.src_items) >= 2
    /\ Len(nl.added) >= 2
    /\ nl.visited = nl.added

----------------------------------------------------------------------------
(* The parser's node functions.  They work on a record p holding the       *)
(* parse nodes and the ParseLevel stack:                                   *)
(*   p.evs, p.ops, p.pls, p.first_ev, p.ev, p.label, p.crashed, p.outside  *)
(* An operator node carries the fields of its single ParseOpRef (label,    *)
(* list_type, mode).  Pointers are node ids, 0 is NULL.                    *)

def_time_ms == 10
POP_PARAMS == {"WAVE", "TIME", "SILENCE", "FREQ", "PHASE", "AMP"}

Cur(p) == p.pls[Len(p.pls)]

NewLevel(scope, list_type) ==
    [pl_flags |-> {}, location |-> "IN_NONE", scope |-> scope,
     list_type |-> list_type, last_list_type |-> "GRAPH",
     event |-> 0, last_event |-> 0, op_ref |-> 0, parent_op_ref |-> 0,
     first_op_ref |-> 0, last_op |-> 0, op_list |-> <<>>, set_label |-> FALSE,
     group_from |-> 0, composite |-> 0, next_wait_ms |-> 0,
     flags |-> {}, in_step |-> FALSE, step_op |-> 0]

end_operator(p) ==
    LET n == Len(p.pls)
        pl == p.pls[n]
        op == pl.op_ref
    IN IF "ACTIVE_OP" \notin pl.pl_flags THEN p
       ELSE [p EXCEPT !.pls[n].pl_flags = @ \ {"ACTIVE_OP"},
                      !.ops[op].op_params =
                          IF p.ops[op].prev = 0 THEN @ \cup POP_PARAMS
                          ELSE IF p.ops[op].silence_ms # 0
                               THEN @ \cup {"SILENCE"} ELSE @,
                      !.pls[n].op_ref = 0,
                      !.pls[n].last_op = op]

end_event(p) ==
    LET n == Len(p.pls)
        pl == p.pls[n]
        p1 == end_operator([p EXCEPT !.pls[n].pl_flags = @ \ {"ACTIVE_EV"}])
    IN IF "ACTIVE_EV" \notin pl.pl_flags THEN p
       ELSE [p1 EXCEPT !.pls[n].last_event = pl.event,
                       !.pls[n].event = 0]

(* begin_event: end the open event and begin a new one, at the end of the  *)
(* event list or, for a composite step, on the chain of its main event.    *)
begin_event(p0, pve, is_composite) ==
    Only({
        LET n == Len(p.pls)
            pl == p.pls[n]
            e == Len(p.evs) + 1
            node == [wait_ms |-> pl.next_wait_ms, next |-> 0, composite |-> 0,
                     groupfrom |-> 0, ev_flags |-> {}, op_list |-> <<>>,
                     vo_prev |-> pve]
            attach == pve # 0 /\ is_composite
        IN [p EXCEPT
               !.evs = [k \in 1..e |->
                   IF k = e THEN node
                   ELSE IF attach /\ k = pve
                        THEN IF pl.composite = 0
                             THEN [p.evs[k] EXCEPT !.composite = e]
                             ELSE [p.evs[k] EXCEPT !.next = e]
                   ELSE IF ~is_composite /\ p.first_ev # 0 /\ k = p.ev
                        THEN [p.evs[k] EXCEPT !.next = e]
                   ELSE p.evs[k]],
               !.first_ev = IF ~is_composite /\ @ = 0 THEN e ELSE @,
               !.ev = IF is_composite THEN @ ELSE e,
               !.pls[n].event = e,
               !.pls[n].next_wait_ms = 0,
               !.pls[n].group_from = IF @ = 0 THEN e ELSE @,
               !.pls[n].composite =
                   IF ~is_composite THEN 0
                   ELSE IF pve # 0 /\ @ = 0 THEN pve ELSE @,
               !.pls[n].pl_flags = @ \cup {"ACTIVE_EV"}]
        : p \in {end_event(p0)} })

RECURSIVE MaxBoundTime(_, _)
(* The do-while loop of begin_operator over the next_bound chain of mpop:  *)
(* the largest time.v_ms on the chain.                                     *)
MaxBoundTime(os, mpop) ==
    LET rest == IF os[mpop].next_bound = 0 THEN 0
                ELSE MaxBoundTime(os, os[mpop].next_bound)
    IN IF rest < os[mpop].time_v THEN os[mpop].time_v ELSE rest

(* begin_operator with list_operator.  After a bind scope (the level has   *)
(* BIND_MULTIPLE) the new node is the multiple-operator node.              *)
begin_operator(p0, prev_op_ref, ref_mode, is_composite) ==
    Only({
        LET n == Len(p2.pls)
            pl == p2.pls[n]
            e == pl.event
            op == Len(p2.ops) + 1
            bound == ~is_composite /\ pl.last_op # 0
            multiple == prev_op_ref # 0 /\ "BIND_MULTIPLE" \in pl.pl_flags
            toEvent == pl.list_type = "GRAPH" \/ ref_mode # "ADD"
            list_type == IF toEvent THEN "GRAPH" ELSE pl.list_type
            relabel == ~is_composite /\ prev_op_ref # 0
                       /\ p2.ops[prev_op_ref].label
            node == [event |-> e, prev |-> prev_op_ref,
                     time_v |-> def_time_ms,
                     time_flags |-> IF prev_op_ref # 0 /\ ~is_composite
                                    THEN {"SET"} ELSE {},
                     silence_ms |-> 0, ramp_ms |-> 0,
                     op_flags |-> IF prev_op_ref # 0
                                  THEN p2.ops[prev_op_ref].op_flags
                                           \cap {"NESTED", "MULTIPLE"}
                                  ELSE IF list_type # "GRAPH" THEN {"NESTED"}
                                                              ELSE {},
                     op_params |-> {}, nest_lists |-> <<>>,
                     next_bound |-> 0,
                     label |-> pl.set_label \/ relabel,
                     list_type |-> list_type, mode |-> ref_mode]
            linked == [k \in 1..op |->
                   IF k = op THEN node
                   ELSE IF k = prev_op_ref /\ is_composite
                        THEN [p2.ops[k] EXCEPT
                                 !.op_flags = @ \cup {"HAS_COMPOSITE"}]
                   ELSE IF bound /\ k = pl.last_op
                        THEN [p2.ops[k] EXCEPT !.next_bound = op]
                   ELSE p2.ops[k]]
        IN [p2 EXCEPT
               !.ops = IF multiple
                       THEN [linked EXCEPT
                                ![op].op_flags = @ \cup {"MULTIPLE"},
                                ![op].time_v =
                                    MaxBoundTime(linked, prev_op_ref)]
                       ELSE linked,
               !.evs[e].op_list = IF toEvent THEN Append(@, op) ELSE @,
               !.pls[n].op_list = IF toEvent THEN @ ELSE Append(@, op),
               !.pls[n].op_ref = op,
               !.pls[n].first_op_ref = IF @ = 0 THEN op ELSE @,
               !.pls[n].last_list_type = pl.list_type,
               !.pls[n].set_label = FALSE,
               !.label = IF pl.set_label \/ relabel THEN op ELSE @,
               !.pls[n].pl_flags =
                   (IF prev_op_ref # 0 THEN @ \ {"BIND_MULTIPLE"} ELSE @)
                   \cup {"ACTIVE_OP"}]
        : p2 \in {end_operator(
                     IF Cur(p0).event = 0 \/ Cur(p0).location # "IN_EVENT"
                        \/ Cur(p0).next_wait_ms # 0 \/ is_composite
                     THEN begin_event(p0, IF prev_op_ref # 0
                                          THEN p0.ops[prev_op_ref].event
                                          ELSE 0,
                                      is_composite)
                     ELSE p0)} })

(* parse_waittime for a wait token: kind "WT" is \t, kind "W" is \<v>.     *)
(* The result's ok field is the return value.                              *)
parse_waittime(p, tok) ==
    LET n == Len(p.pls)
        pl == p.pls[n]
    IN IF tok.k = "WT"
       THEN IF pl.last_op = 0 THEN [p |-> p, ok |-> FALSE]
            ELSE IF pl.last_event = 0
                 THEN [p |-> [p EXCEPT !.crashed = TRUE], ok |-> FALSE]
                 ELSE [p |-> [p EXCEPT !.evs[pl.last_event].ev_flags =
                                           @ \cup {"ADD_WAIT_DURATION"}],
                       ok |-> TRUE]
       ELSE [p |-> [p EXCEPT !.pls[n].next_wait_ms = U32(@ + tok.v)],
             ok |-> TRUE]

(* begin_scope for a nested scope (SCOPE_NEST) opened from parse_step, or  *)
(* for a bind scope (SCOPE_BIND) opened from parse_level.                  *)
begin_scope(p, list_type, newscope) ==
    LET parent == Cur(p)
        pl == [NewLevel(newscope, list_type) EXCEPT
                  !.pl_flags = (parent.pl_flags
                                   \cap {"NESTED_SCOPE", "BIND_MULTIPLE"})
                               \cup (IF newscope = "NEST"
                                     THEN {"NESTED_SCOPE"} ELSE {}),
                  !.location = parent.location,
                  !.event = parent.event,
                  !.op_ref = parent.op_ref,
                  !.parent_op_ref = IF newscope = "NEST" THEN parent.op_ref
                                    ELSE parent.parent_op_ref,
                  !.group_from = IF newscope = "BIND" THEN parent.group_from
                                 ELSE 0]
    IN [p EXCEPT !.pls = Append(@, pl)]

(* end_scope: SCOPE_TOP ends the last event and marks the last group;     *)
(* SCOPE_BIND returns to the parent level and, if the scope listed an      *)
(* operator, begins the multiple-operator node there (an update of the     *)
(* scope's first operator; it goes to the event's list whatever the        *)
(* parent's list type is set to for the call); SCOPE_NEST hands its        *)
(* operator list to the parent operator and returns to the parent level.   *)
end_scope(p0) ==
    Only({
        LET n == Len(p.pls)
            pl == p.pls[n]
            parent_op == pl.parent_op_ref
        IN IF pl.scope = "TOP"
           THEN Only({
                    LET plt == pt.pls[n]
                        group_to == IF plt.composite # 0 THEN plt.composite
                                    ELSE plt.last_event
                    IN IF group_to # 0
                       THEN [pt EXCEPT !.evs[group_to].groupfrom =
                                           plt.group_from]
                       ELSE pt
                    : pt \in {end_event(p)} })
           ELSE IF pl.scope = "BIND"
           THEN Only({
                    IF pl.first_op_ref = 0 THEN pp
                    ELSE [begin_operator(
                              [pp EXCEPT !.pls[n - 1].pl_flags =
                                             @ \cup {"BIND_MULTIPLE"},
                                         !.pls[n - 1].list_type =
                                             pp.pls[n - 1].last_list_type],
                              pl.first_op_ref, "UPDATE", FALSE)
                          EXCEPT !.pls[n - 1].list_type =
                                     pp.pls[n - 1].list_type]
                    : pp \in {[p EXCEPT
                                  !.pls = [k \in 1..(n - 1) |->
                                      IF k = n - 1 /\ p.pls[k].group_from = 0
                                      THEN [p.pls[k] EXCEPT !.group_from =
                                               pl.group_from]
                                      ELSE p.pls[k]]]} })
           ELSE [p EXCEPT !.ops = [k \in DOMAIN p.ops |->
                                      IF k = parent_op
                                      THEN [p.ops[k] EXCEPT !.nest_lists =
                                               Append(@, pl.op_list)]
                                      ELSE p.ops[k]],
                          !.pls = SubSeq(@, 1, n - 1)]
        : p \in {end_operator(p0)} })

(* Entry of parse_step: fails without an operator, else fixes the local   *)
(* op and the location.                                                    *)
enter_step(p) ==
    LET n == Len(p.pls)
        pl == p.pls[n]
    IN IF pl.op_ref = 0
       THEN [p EXCEPT !.pls[n].flags = {}, !.pls[n].in_step = FALSE]
       ELSE [p EXCEPT !.pls[n].flags = {},
                      !.pls[n].in_step = TRUE,
                      !.pls[n].step_op = pl.op_ref,
                      !.pls[n].location = "IN_EVENT"]

StepKinds == {"W", "WT", "T", "TSTAR", "TI", "NEST"}

(* One parameter of parse_step.  The time cases write through the local   *)
(* op fixed at entry; the wait case begins an update of pl->op_ref.        *)
parse_step(p, tok) ==
    LET n == Len(p.pls)
        pl == p.pls[n]
        op == pl.step_op
        w == parse_waittime(p, tok)
    IN CASE tok.k \in {"W", "WT"} ->
              IF w.ok
              THEN begin_operator(w.p, Cur(w.p).op_ref, "UPDATE", FALSE)
              ELSE w.p
         [] tok.k = "T" ->
              [p EXCEPT !.ops[op].time_v = tok.v,
                        !.ops[op].time_flags = {"SET"},
                        !.ops[op].op_params = @ \cup {"TIME"}]
         [] tok.k = "TSTAR" ->
              [p EXCEPT !.ops[op].time_v = def_time_ms,
                        !.ops[op].time_flags = {},
                        !.ops[op].op_params = @ \cup {"TIME"}]
         [] tok.k = "TI" ->
              IF "NESTED" \notin p.ops[op].op_flags THEN p
              ELSE [p EXCEPT !.ops[op].time_flags = @ \cup {"SET", "LINKED"},
                             !.ops[op].op_params = @ \cup {"TIME"}]
         [] tok.k = "NEST" ->
              begin_scope([p EXCEPT !.ops[pl.op_ref].op_params =
                                        @ \cup {"ADJCS"}], "PMODS", "NEST")

(* One character of parse_level's switch. *)
parse_level_case(p, tok) ==
    LET n == Len(p.pls)
        pl == p.pls[n]
        invalid == pl.location = "IN_DEFAULTS"
                   \/ ("NESTED_SCOPE" \in pl.pl_flags /\ pl.event # 0)
        group_to == IF pl.composite # 0 THEN pl.composite ELSE pl.event
        pg == IF pl.group_from # 0
              THEN [p EXCEPT !.evs[group_to].groupfrom = pl.group_from,
                             !.pls[n].group_from = 0]
              ELSE p
    IN CASE tok.k = "NL" ->
              IF pl.scope = "TOP"
              THEN [p EXCEPT !.pls[n].flags = {},
                             !.pls[n].location = "IN_NONE",
                             !.pls[n].first_op_ref = 0]
              ELSE p
         [] tok.k = "LBL" -> [p EXCEPT !.pls[n].set_label = TRUE]
         [] tok.k = "SEMI" ->
              IF pl.location = "IN_DEFAULTS" \/ pl.event = 0 THEN p
              ELSE enter_step(begin_operator(p, pl.op_ref, "UPDATE", TRUE))
         [] tok.k = "REF" ->
              LET p1 == [p EXCEPT !.pls[n].set_label = FALSE,
                                  !.pls[n].location = "IN_NONE"]
              IN IF p.label = 0 THEN p1
                 ELSE enter_step(begin_operator(p1, p.label, "UPDATE", FALSE))
         [] tok.k = "O" -> enter_step(begin_operator(p, 0, "ADD", FALSE))
         [] tok.k \in {"W", "WT"} ->
              IF invalid THEN p ELSE parse_waittime(p, tok).p
         [] tok.k = "END" ->
              IF pl.scope = "NEST" THEN end_scope(end_operator(p))
              ELSE IF pl.scope = "BIND" THEN enter_step(end_scope(p))
              ELSE p
         [] tok.k = "BIND" ->
              begin_scope(end_operator(p), pl.list_type, "BIND")
         [] tok.k = "BAR" ->
              IF invalid \/ pl.event = 0 THEN p
              ELSE LET p1 == end_event(pg)
                   IN [p1 EXCEPT !.pls[n].flags = @ \ {"DEFERRED_STEP"},
                                 !.pls[n].location = "IN_NONE"]
         [] tok.k = "NEST" -> [p EXCEPT !.outside = TRUE]
         [] OTHER -> p

(* The scanner delivers one token: to parse_step while it runs and knows  *)
(* the token, otherwise to parse_level, which afterwards returns to a     *)
(* deferred parse_step.                                                    *)
parse_token(p, tok) ==
    LET n == Len(p.pls)
        pl == p.pls[n]
        deferred == [p EXCEPT !.pls[n].in_step = FALSE,
                              !.pls[n].flags = {"DEFERRED_STEP"}]
    IN IF pl.in_step /\ tok.k \in StepKinds THEN parse_step(p, tok)
       ELSE Only({
                IF Len(p1.pls) = n /\ ~Cur(p1).in_step
                   /\ "DEFERRED_STEP" \in Cur(p1).flags
                THEN enter_step(p1)
                ELSE p1
                : p1 \in {parse_level_case(IF pl.in_step THEN deferred ELSE p,
                                           tok)} })

RECURSIVE parse_eof(_)
(* End of file: every open scope is ended, innermost first. *)
parse_eof(p) ==
    IF Len(p.pls) > 1 THEN parse_eof(end_scope(p)) ELSE end_scope(p)

----------------------------------------------------------------------------
(* The timing passes of ParseConv_convert.  They work on a record g with   *)
(* the event and operator nodes (g.evs, g.ops), the flag g.wrap that       *)
(* records an unsigned subtraction whose minuend was the smaller number,   *)
(* and g.crashed for a NULL dereference.                                   *)

RECURSIVE Flat(_)
(* The operators of a sequence of lists, in list order. *)
Flat(lists) == IF lists = <<>> THEN <<>> ELSE Head(lists) \o Flat(Tail(lists))

RECURSIVE time_operator(_, _), oplist_fornew(_, _, _)
time_operator(g0, op) ==
    LET o0 == g0.ops[op]
        e == o0.event
        tf == IF "NESTED" \in o0.op_flags /\ "SET" \notin o0.time_flags
              THEN o0.time_flags \cup {"SET"}
                    \cup (IF "HAS_COMPOSITE" \notin o0.op_flags
                          THEN {"LINKED"} ELSE {})
              ELSE o0.time_flags
        unlinked == "LINKED" \notin tf
        tv == IF unlinked /\ "SILENCE_ADDED" \notin o0.op_flags
              THEN U32(o0.time_v + o0.silence_ms) ELSE o0.time_v
        g1 == [g0 EXCEPT !.ops[op].time_flags = tf,
                         !.ops[op].ramp_ms = IF unlinked THEN o0.time_v ELSE @,
                         !.ops[op].time_v = tv,
                         !.ops[op].op_flags =
                             IF unlinked THEN @ \cup {"SILENCE_ADDED"} ELSE @]
        nx == g1.evs[e].next
        g2 == IF "ADD_WAIT_DURATION" \in g1.evs[e].ev_flags
              THEN [(IF nx # 0
                     THEN [g1 EXCEPT !.evs[nx].wait_ms = U32(@ + tv)]
                     ELSE g1)
                    EXCEPT !.evs[e].ev_flags = @ \ {"ADD_WAIT_DURATION"}]
              ELSE g1
    IN oplist_fornew(g2, Flat(o0.nest_lists), 1)

(* oplist_fornew with time_operator as the callback. *)
oplist_fornew(g0, ol, i) ==
    IF i > Len(ol) THEN g0
    ELSE Only({ oplist_fornew(time_operator(g, ol[i]), ol, i + 1)
                : g \in {g0} })

(* time_event without its timing of composites. *)
time_event_no_composites(g0, e) == oplist_fornew(g0, g0.evs[e].op_list, 1)

RECURSIVE CompositeLoop(_, _, _, _), time_event(_, _)
(* The for (;;) loop of time_event over the composite chain. *)
CompositeLoop(g0, ce, ce_op_prev, e_op) ==
    Only({
        LET ce_op == Head(g.evs[ce].op_list)
            prev == g.ops[ce_op_prev]
            g1 == [g EXCEPT !.evs[ce].wait_ms = U32(@ + prev.time_v)]
            c1 == g1.ops[ce_op]
            g2 == IF "SET" \in c1.time_flags THEN g1
                  ELSE IF c1.op_flags \cap {"NESTED", "HAS_COMPOSITE"}
                              = {"NESTED"}
                       THEN [g1 EXCEPT !.ops[ce_op].time_flags =
                                           @ \cup {"SET", "LINKED"}]
                       ELSE [g1 EXCEPT !.ops[ce_op].time_flags = @ \cup {"SET"},
                                       !.ops[ce_op].time_v =
                                           U32(prev.time_v - prev.silence_ms)]
            g3 == time_event(g2, ce)
            g4 == IF "LINKED" \in g3.ops[ce_op].time_flags
                  THEN [g3 EXCEPT !.ops[e_op].time_flags = @ \cup {"LINKED"}]
                  ELSE IF "LINKED" \notin g3.ops[e_op].time_flags
                       THEN [g3 EXCEPT !.ops[e_op].time_v =
                                U32(@ + U32(g3.ops[ce_op].time_v
                                            + U32(g3.evs[ce].wait_ms
                                                  - g3.ops[ce_op_prev].time_v)))]
                       ELSE g3
            g5 == [g4 EXCEPT !.ops[ce_op].op_params = @ \ {"TIME"}]
            nx == g5.evs[ce].next
        IN IF nx = 0 THEN g5 ELSE CompositeLoop(g5, nx, ce_op, e_op)
        : g \in {g0} })

time_event(g0, e) ==
    LET g == oplist_fornew(g0, g0.evs[e].op_list, 1)
        ce == g.evs[e].composite
        ce_op == Head(g.evs[ce].op_list)
        e_op == g.ops[ce_op].prev
    IN IF ce = 0 THEN g
       ELSE IF e_op = 0 THEN [g EXCEPT !.crashed = TRUE]
       ELSE CompositeLoop([g EXCEPT !.ops[e_op].time_flags = @ \cup {"SET"}],
                          ce, e_op, e_op)

RECURSIVE GroupChain(_, _, _)
(* The events group_events walks: from e along next up to e_after; 0 at   *)
(* the end of the result marks a walk that runs off the list.             *)
GroupChain(g, e, e_after) ==
    IF e = e_after THEN <<>>
    ELSE IF e = 0 THEN <<0>>
    ELSE <<e>> \o GroupChain(g, g.evs[e].next, e_after)

RECURSIVE SumWaits(_, _)
SumWaits(g, chain) ==
    IF chain = <<>> THEN 0
    ELSE LET nx == g.evs[Head(chain)].next
         IN U32((IF nx # 0 THEN g.evs[nx].wait_ms ELSE 0)
                + SumWaits(g, Tail(chain)))

(* The time of the first operator only, where group_events wants the      *)
(* longest.                                                                *)
FirstTimeOf(g, ol) == IF ol = <<>> THEN 0 ELSE g.ops[Head(ol)].time_v

RECURSIVE MaxTimeOf(_, _)
MaxTimeOf(g, ol) ==
    IF ol = <<>> THEN 0
    ELSE Max(g.ops[Head(ol)].time_v, MaxTimeOf(g, Tail(ol)))

RECURSIVE GroupOps(_, _)
(* The operators of the events of a chain, in walking order. *)
GroupOps(g, chain) ==
    IF chain = <<>> THEN <<>>
    ELSE g.evs[Head(chain)].op_list \o GroupOps(g, Tail(chain))

RECURSIVE FillDefaults(_, _, _, _)
(* Second loop of group_events. *)
FillDefaults(g0, chain, wait, waitcount) ==
    IF chain = <<>> THEN g0
    ELSE Only({
        LET e == Head(chain)
            ol == g.evs[e].op_list
            nx == g.evs[e].next
            g1 == [g EXCEPT !.ops = [o \in DOMAIN g.ops |->
                       IF (\E k \in 1..Len(ol) : ol[k] = o)
                          /\ "SET" \notin g.ops[o].time_flags
                       THEN [g.ops[o] EXCEPT !.time_v = U32(wait + waitcount),
                                             !.time_flags = @ \cup {"SET"}]
                       ELSE g.ops[o]]]
        IN FillDefaults(g1, Tail(chain), wait,
                        IF nx # 0 THEN U32(waitcount - g.evs[nx].wait_ms)
                        ELSE waitcount)
        : g \in {g0} })

(* group_events leaving the wait of the event after the group alone. *)
group_events_no_absorb(g0, to) ==
    LET e_after == g0.evs[to].next
        chain == GroupChain(g0, g0.evs[to].groupfrom, e_after)
        last_e == chain[Len(chain)]
        last_ol == g0.evs[last_e].op_list
        g1 == IF last_ol = <<>> THEN g0
              ELSE [g0 EXCEPT !.ops[last_ol[Len(last_ol)]].time_flags =
                                  @ \cup {"SET"}]
        wait == MaxTimeOf(g0, GroupOps(g0, chain))
        waitcount == SumWaits(g0, chain)
    IN IF chain = <<>> THEN [g0 EXCEPT !.evs[to].groupfrom = 0]
       ELSE IF last_e = 0 THEN [g0 EXCEPT !.crashed = TRUE]
       ELSE [FillDefaults(g1, chain, wait, waitcount)
             EXCEPT !.evs[to].groupfrom = 0]

group_events(g0, to) ==
    LET e_after == g0.evs[to].next
        chain == GroupChain(g0, g0.evs[to].groupfrom, e_after)
        last_e == chain[Len(chain)]
        last_ol == g0.evs[last_e].op_list
        g1 == IF last_ol = <<>> THEN g0
              ELSE [g0 EXCEPT !.ops[last_ol[Len(last_ol)]].time_flags =
                                  @ \cup {"SET"}]
        wait == MaxTimeOf(g0, GroupOps(g0, chain))
        waitcount == SumWaits(g0, chain)
        g2 == [FillDefaults(g1, chain, wait, waitcount)
               EXCEPT !.evs[to].groupfrom = 0]
    IN IF chain = <<>> THEN [g0 EXCEPT !.evs[to].groupfrom = 0]
       ELSE IF last_e = 0 THEN [g0 EXCEPT !.crashed = TRUE]
       ELSE IF e_after # 0
            THEN [g2 EXCEPT !.evs[e_after].wait_ms = U32(@ + wait)]
            ELSE g2

RECURSIVE FlattenLoop(_, _, _, _, _, _)
(* The while loop of flatten_events. *)
FlattenLoop(g0, ce, se, se_prev, wait_ms, added_wait_ms) ==
    IF ce = 0 THEN g0
    ELSE IF se = 0 THEN [g0 EXCEPT !.evs[se_prev].next = ce]
    ELSE Only({
        LET w == U32(wait_ms + g.evs[se].wait_ms)
            target == U32(g.evs[ce].wait_ms + added_wait_ms)
            se_next == g.evs[se].next
            ce_next == g.evs[ce].next
            cw == U32(g.evs[ce].wait_ms - w)
        IN IF se_next # 0 /\ U32(w + g.evs[se_next].wait_ms) <= target
           THEN FlattenLoop(g, ce, se_next, se, w, added_wait_ms)
           ELSE IF g.evs[se].wait_ms >= target
                THEN FlattenLoop(
                         [g EXCEPT !.evs[se].wait_ms = U32(@ - target),
                                   !.evs[se_prev].next = ce,
                                   !.evs[ce].next = se],
                         ce_next, se, ce, 0, 0)
                ELSE FlattenLoop(
                         [g EXCEPT !.evs[ce].wait_ms = cw,
                                   !.evs[se].next = ce,
                                   !.evs[ce].next = se_next,
                                   !.wrap = @ \/ g.evs[ce].wait_ms < w],
                         ce_next, se_next, ce, 0, U32(added_wait_ms + cw))
        : g \in {g0} })

(* flatten_events leaving no wait in the list it has merged. *)
flatten_events_no_waits(g, e) ==
    Only({ [f EXCEPT !.evs = [k \in DOMAIN f.evs |->
                                 [f.evs[k] EXCEPT !.wait_ms = 0]]]
           : f \in {[FlattenLoop(g, g.evs[e].composite, g.evs[e].next, e, 0, 0)
                     EXCEPT !.evs[e].composite = 0]} })

(* flatten_events clearing the composite pointer without merging the chain. *)
flatten_events_drop_chain(g, e) ==
    [g EXCEPT !.evs[e].composite = 0]

flatten_events(g, e) ==
    [FlattenLoop(g, g.evs[e].composite, g.evs[e].next, e, 0, 0)
     EXCEPT !.evs[e].composite = 0]

----------------------------------------------------------------------------
(* The conversion of ParseConv_convert's second loop.  Its functions work  *)
(* on a record c with the parse nodes (c.evs, c.ops) and the script data:  *)
(*   c.sev      the SAU_ScriptEvData nodes, in list order                  *)
(*   c.sod      the SAU_ScriptOpData nodes                                 *)
(*   c.op_conv  pod->op_conv, c.op_ctx  pod->op_context (by operator id)   *)
(*   c.ctx      the OpContext records (newest)                             *)
(*   c.ev_conv  pe->ev_conv, c.vo_ctx  pe->vo_context (by event id)        *)
(*   c.vctx     the VoContext records (newest)                             *)
(*   c.ok       the return value of the last call                          *)
(*   c.err      a function took its ERROR exit                             *)
(*   c.crashed  a NULL pointer was dereferenced                            *)
(* A list is named by a target: none (NULL), the op_carriers of an event,  *)
(* or a modulator list of a script operator.                               *)

NoList == [k |-> "null", a |-> 0, b |-> 0]
CarrierList(e) == [k |-> "car", a |-> e, b |-> 0]
ModList(od, j) == [k |-> "mod", a |-> od, b |-> j]

(* SAU_NodeList_add of od to the list a target names. *)
SAU_NodeList_add(c, target, od) ==
    IF target.k = "car"
    THEN [c EXCEPT !.sev[target.a].op_carriers = Append(@, od)]
    ELSE [c EXCEPT !.sod[target.a].mod_lists[target.b] = Append(@, od)]

(* ParseConv_update_opcontext that leaves the context's newest node at    *)
(* the operator's first node.                                              *)
update_opcontext_keeps_first(c, od, pod) ==
    LET prev == c.ops[pod].prev
        oc == IF prev = 0 THEN Len(c.ctx) + 1 ELSE c.op_ctx[prev]
        od_prev == c.op_conv[c.ctx[oc].newest]
    IN IF prev = 0
       THEN [c EXCEPT !.ctx = Append(@, [newest |-> pod]),
                      !.op_ctx[pod] = oc, !.ok = TRUE]
       ELSE IF oc = 0
            THEN [c EXCEPT !.ops[pod].op_flags = @ \cup {"IGNORED"},
                           !.ok = FALSE]
            ELSE [c EXCEPT !.sod[od].op_prev = od_prev,
                           !.sod[od_prev].op_flags = @ \cup {"LATER_USED"},
                           !.op_ctx[pod] = oc, !.ok = TRUE]

ParseConv_update_opcontext(c, od, pod) ==
    LET prev == c.ops[pod].prev
        oc == IF prev = 0 THEN Len(c.ctx) + 1 ELSE c.op_ctx[prev]
        od_prev == c.op_conv[c.ctx[oc].newest]
    IN IF prev = 0
       THEN [c EXCEPT !.ctx = Append(@, [newest |-> pod]),
                      !.op_ctx[pod] = oc, !.ok = TRUE]
       ELSE IF oc = 0
            THEN [c EXCEPT !.ops[pod].op_flags = @ \cup {"IGNORED"},
                           !.ok = FALSE]
            ELSE [c EXCEPT !.sod[od].op_prev = od_prev,
                           !.sod[od_prev].op_flags = @ \cup {"LATER_USED"},
                           !.ctx[oc].newest = pod,
                           !.op_ctx[pod] = oc, !.ok = TRUE]

ParseConv_add_opdata(c0, pod) ==
    Only({
        LET e == Len(c.sev)
            od == Len(c.sod) + 1
            carrier == c.ops[pod].list_type = "GRAPH" /\ c.ops[pod].mode = "ADD"
            node == [pod |-> pod, event |-> e,
                     op_flags |-> IF carrier THEN {"NEW_CARRIER"} ELSE {},
                     op_prev |-> 0, mod_lists |-> <<>>]
        IN Only({ IF c2.ok THEN [c2 EXCEPT !.sev[e].op_all = Append(@, od)]
                  ELSE c2
                  : c2 \in {ParseConv_update_opcontext(
                               [c EXCEPT !.sod = Append(@, node),
                                         !.op_conv[pod] = od,
                                         !.sev[e].ev_flags =
                                             IF carrier
                                             THEN @ \cup {"NEW_OPGRAPH"}
                                             ELSE @],
                               od, pod)} })
        : c \in {c0} })

RECURSIVE add_ops_error_on_ignored(_, _, _)
(* ParseConv_add_ops taking its error exit for a node that                 *)
(* ParseConv_update_opcontext has flagged IGNORED.                         *)
add_ops_error_on_ignored(c0, pol, i) ==
    IF i > Len(pol) \/ c0.err THEN c0
    ELSE IF "MULTIPLE" \in c0.ops[pol[i]].op_flags
    THEN add_ops_error_on_ignored(
             [c0 EXCEPT !.ops[pol[i]].op_flags = @ \cup {"IGNORED"}],
             pol, i + 1)
    ELSE Only({
        IF ~c1.ok THEN [c1 EXCEPT !.err = TRUE]
        ELSE Only({ add_ops_error_on_ignored(c2, pol, i + 1)
                    : c2 \in {add_ops_error_on_ignored(
                                 c1, Flat(c1.ops[pol[i]].nest_lists), 1)} })
        : c1 \in {ParseConv_add_opdata(c0, pol[i])} })

RECURSIVE ParseConv_add_ops(_, _, _)
(* ParseConv_add_ops from the i-th reference of the list pol on. *)
ParseConv_add_ops(c0, pol, i) ==
    IF i > Len(pol) \/ c0.err THEN c0
    ELSE IF "MULTIPLE" \in c0.ops[pol[i]].op_flags
    THEN ParseConv_add_ops(
             [c0 EXCEPT !.ops[pol[i]].op_flags = @ \cup {"IGNORED"}],
             pol, i + 1)
    ELSE Only({
        IF ~c1.ok
        THEN IF "IGNORED" \in c1.ops[pol[i]].op_flags
             THEN ParseConv_add_ops(c1, pol, i + 1)
             ELSE [c1 EXCEPT !.err = TRUE]
        ELSE Only({ ParseConv_add_ops(c2, pol, i + 1)
                    : c2 \in {ParseConv_add_ops(
                                 c1, Flat(c1.ops[pol[i]].nest_lists), 1)} })
        : c1 \in {ParseConv_add_opdata(c0, pol[i])} })

RECURSIVE ParseConv_link_ops(_, _, _, _), LinkNestLists(_, _, _, _)
(* ParseConv_link_ops from the i-th reference of the list pol on: the      *)
(* converted operators are added to the target list, and each nest list   *)
(* of an operator becomes a new modulator list of its script operator.     *)
ParseConv_link_ops(c0, target, pol, i) ==
    IF i > Len(pol) \/ c0.err THEN c0
    ELSE IF "IGNORED" \in c0.ops[pol[i]].op_flags
    THEN ParseConv_link_ops(c0, target, pol, i + 1)
    ELSE IF c0.op_conv[pol[i]] = 0 THEN [c0 EXCEPT !.err = TRUE]
    ELSE Only({ Only({ ParseConv_link_ops(c2, target, pol, i + 1)
                       : c2 \in {LinkNestLists(c1, pol[i],
                                               c1.op_conv[pol[i]], 1)} })
                : c1 \in {IF target.k = "null" THEN c0
                          ELSE SAU_NodeList_add(c0, target,
                                                c0.op_conv[pol[i]])} })

(* The loop of ParseConv_link_ops over the nest lists of pod, from the     *)
(* j-th on.                                                                *)
LinkNestLists(c0, pod, od, j) ==
    IF j > Len(c0.ops[pod].nest_lists) \/ c0.err THEN c0
    ELSE Only({ Only({ LinkNestLists(c2, pod, od, j + 1)
                       : c2 \in {ParseConv_link_ops(
                                    c1, ModList(od, Len(c1.sod[od].mod_lists)),
                                    c1.ops[pod].nest_lists[j], 1)} })
                : c1 \in {[c0 EXCEPT !.sod[od].mod_lists = Append(@, <<>>)]} })

ParseConv_add_event(c0, pev) ==
    Only({
        LET e == Len(c.sev) + 1
            pve == c.evs[pev].vo_prev
            vc == IF pve = 0 THEN Len(c.vctx) + 1 ELSE c.vo_ctx[pve]
            vo_prev == c.ev_conv[c.vctx[vc].newest]
            node == [pe |-> pev, wait_ms |-> c.evs[pev].wait_ms,
                     ev_flags |-> IF pve = 0 THEN {"NEW_OPGRAPH"} ELSE {},
                     vo_prev |-> IF pve = 0 THEN 0 ELSE vo_prev,
                     op_all |-> <<>>, has_carriers |-> FALSE,
                     op_carriers |-> <<>>]
            c1 == [c EXCEPT
                      !.sev = [k \in 1..e |->
                          IF k = e THEN node
                          ELSE IF pve # 0 /\ k = vo_prev
                               THEN [c.sev[k] EXCEPT !.ev_flags =
                                        @ \cup {"VOICE_LATER_USED"}]
                          ELSE c.sev[k]],
                      !.ev_conv[pev] = e,
                      !.vctx = IF pve = 0 THEN Append(@, [newest |-> pev])
                               ELSE [@ EXCEPT ![vc].newest = pev],
                      !.vo_ctx[pev] = vc]
        IN IF pve # 0 /\ vc = 0 THEN [c EXCEPT !.crashed = TRUE]
           ELSE Only({
                    IF c2.err THEN c2
                    ELSE IF "NEW_OPGRAPH" \in c2.sev[e].ev_flags
                    THEN ParseConv_link_ops(
                             [c2 EXCEPT !.sev[e].has_carriers = TRUE],
                             CarrierList(e), c2.evs[pev].op_list, 1)
                    ELSE ParseConv_link_ops(c2, NoList, c2.evs[pev].op_list, 1)
                    : c2 \in {ParseConv_add_ops(c1, c1.evs[pev].op_list, 1)} })
        : c \in {c0} })

----------------------------------------------------------------------------
(* The script reader: SAU_Parser parsing a script, then ParseConv_convert  *)
(* running the time pass, then converting and flattening the events.       *)

TimeVals == {5}
WaitVals == {1, 11}
MaxScript == 4

Tok(k, v) == [k |-> k, v |-> v]
Plain(k) == Tok(k, 0)

Alphabet ==
    {Plain(k) : k \in {"O", "TSTAR", "TI", "WT", "SEMI", "BAR", "NL",
                       "LBL", "REF", "NEST", "END"}}
    \cup {Tok("T", v) : v \in TimeVals} \cup {Tok("W", v) : v \in WaitVals}

(* `Osin t1 | Osin t0.5 | Osin t2` *)
GroupScript ==
    <<Plain("O"), Tok("T", 10), Plain("BAR"), Plain("O"), Tok("T", 5),
      Plain("BAR"), Plain("O"), Tok("T", 20)>>

(* `Osin f440 t0.1; t0.1 f880; t0.1 f1320` *)
CompositeScript ==
    <<Plain("O"), Tok("T", 1), Plain("SEMI"), Tok("T", 1), Plain("SEMI"),
      Tok("T", 1)>>

(* `Osin f200 t0.5 \t Osin f400 t0.5` *)
WaitPrevScript ==
    <<Plain("O"), Tok("T", 5), Plain("WT"), Plain("O"), Tok("T", 5)>>

Tails == UNION {[1..n -> Alphabet] : n \in 0..MaxScript}

Scripts ==
    {<<Plain("O")>> \o t : t \in Tails}
    \cup {<<Plain("LBL"), Plain("O")>> \o t
          : t \in {u \in Tails : Len(u) < MaxScript}}
    \cup {GroupScript, CompositeScript, WaitPrevScript}

(* Scripts with a bind scope `@[ ... ]`: one operator, possibly labelled  *)
(* and possibly with a nested list, then tokens among which a bind scope   *)
(* opens.                                                                  *)
BindScripts ==
    LET BindAlphabet ==
            {Plain(k) : k \in {"O", "SEMI", "LBL", "REF", "NEST", "END",
                               "BIND"}}
            \cup {Tok("T", v) : v \in TimeVals}
        BindTails ==
            {t \in UNION {[1..n -> BindAlphabet] : n \in 1..MaxScript} :
                \E k \in 1..Len(t) : t[k].k = "BIND"}
    IN {<<Plain("O")>> \o t : t \in BindTails}
       \cup {<<Plain("BIND"), Plain("O")>> \o t
             : t \in UNION {[1..n -> BindAlphabet]
                            : n \in 0..(MaxScript - 1)}}
       \cup {<<Plain("O"), Plain("NEST"), Plain("BIND"), Plain("LBL"),
               Plain("O"), Plain("END"), Plain("END"), Plain("REF")>>,
             <<Plain("O"), Plain("NEST"), Plain("BIND"), Plain("O"),
               Plain("LBL"), Plain("O"), Plain("END"), Plain("END"),
               Plain("REF")>>}

PState ==
    [evs |-> evs, ops |-> ops, pls |-> pls, first_ev |-> first_ev,
     ev |-> last_ev, label |-> label_data, crashed |-> FALSE,
     outside |-> FALSE]

GState == [evs |-> evs, ops |-> ops, wrap |-> flat_wrap, crashed |-> FALSE]

CState ==
    [evs |-> evs, ops |-> ops, sev |-> conv.sev, sod |-> conv.sod,
     ctx |-> conv.ctx, vctx |-> conv.vctx, op_conv |-> conv.op_conv,
     op_ctx |-> conv.op_ctx, ev_conv |-> conv.ev_conv, vo_ctx |-> conv.vo_ctx,
     ok |-> TRUE, err |-> FALSE, crashed |-> FALSE]

(* The script data and contexts of a conversion record. *)
ConvOf(c) ==
    [sev |-> c.sev, sod |-> c.sod, ctx |-> c.ctx, vctx |-> c.vctx,
     op_conv |-> c.op_conv, op_ctx |-> c.op_ctx, ev_conv |-> c.ev_conv,
     vo_ctx |-> c.vo_ctx, err |-> c.err]

InitParse ==
    /\ GenIdle
    /\ LibIdle
    /\ script \in Scripts
    /\ sp = 1 /\ evs = <<>> /\ ops = <<>>
    /\ pls = <<NewLevel("TOP", "GRAPH")>>
    /\ first_ev = 0 /\ last_ev = 0 /\ label_data = 0
    /\ ppc = "parse" /\ pe = 0 /\ parsed = [evs |-> <<>>, ops |-> <<>>]
    /\ timed = [evs |-> <<>>, ops |-> <<>>]
    /\ conv = NoConv(0, 0)
    /\ flat_wrap = FALSE

(* The script reader given a script with a bind scope. *)
InitBind ==
    /\ GenIdle
    /\ LibIdle
    /\ script \in BindScripts
    /\ sp = 1 /\ evs = <<>> /\ ops = <<>>
    /\ pls = <<NewLevel("TOP", "GRAPH")>>
    /\ first_ev = 0 /\ last_ev = 0 /\ label_data = 0
    /\ ppc = "parse" /\ pe = 0 /\ parsed = [evs |-> <<>>, ops |-> <<>>]
    /\ timed = [evs |-> <<>>, ops |-> <<>>]
    /\ conv = NoConv(0, 0)
    /\ flat_wrap = FALSE

StoreParse(p) ==
    /\ evs' = p.evs /\ ops' = p.ops /\ pls' = p.pls
    /\ first_ev' = p.first_ev /\ last_ev' = p.ev /\ label_data' = p.label

(* parse_level and parse_step take the next token of the script. *)
ParseChar ==
    /\ ppc = "parse" /\ sp <= Len(script)
    /\ \E p \in {parse_token(PState, script[sp])} :
          /\ StoreParse(p)
          /\ ppc' = IF p.crashed THEN "crashed"
                    ELSE IF p.outside THEN "outside" ELSE "parse"
    /\ sp' = sp + 1
    /\ UNCHANGED <<script, pe, parsed, timed, conv, flat_wrap>>
    /\ UNCHANGED genVars
    /\ UNCHANGED libVars

(* The scanner is at the end of the script: the scopes end, and            *)
(* ParseConv_convert starts at the first event.                            *)
ParseEOF ==
    /\ ppc = "parse" /\ sp > Len(script)
    /\ \E p \in {parse_eof(PState)} :
          /\ StoreParse(p)
          /\ parsed' = [evs |-> p.evs, ops |-> p.ops]
          /\ conv' = NoConv(Len(p.evs), Len(p.ops))
          /\ pe' = p.first_ev
          /\ ppc' = IF p.first_ev = 0 THEN "done" ELSE "time"
    /\ UNCHANGED <<script, sp, timed, flat_wrap>>
    /\ UNCHANGED genVars
    /\ UNCHANGED libVars

(* First loop of ParseConv_convert, first half of its body. *)
TimeEvent ==
    /\ ppc = "time"
    /\ \E g \in {time_event(GState, pe)} :
          /\ evs' = g.evs /\ ops' = g.ops
          /\ LET nx == g.evs[pe].next
             IN IF g.crashed THEN ppc' = "crashed" /\ pe' = pe
                ELSE IF g.evs[pe].groupfrom # 0 THEN ppc' = "group" /\ pe' = pe
                ELSE IF nx # 0 THEN ppc' = "time" /\ pe' = nx
                ELSE ppc' = "flatten" /\ pe' = first_ev
    /\ UNCHANGED <<script, sp, pls, first_ev, last_ev, label_data, parsed,
                   timed, conv, flat_wrap>>
    /\ UNCHANGED genVars
    /\ UNCHANGED libVars

(* First loop of ParseConv_convert, second half of its body: the event    *)
(* closes a group.                                                         *)
GroupEvents ==
    /\ ppc = "group"
    /\ \E g \in {group_events(GState, pe)} :
          /\ evs' = g.evs /\ ops' = g.ops
          /\ LET nx == g.evs[pe].next
             IN IF g.crashed THEN ppc' = "crashed" /\ pe' = pe
                ELSE IF nx # 0 THEN ppc' = "time" /\ pe' = nx
                ELSE ppc' = "flatten" /\ pe' = first_ev
    /\ UNCHANGED <<script, sp, pls, first_ev, last_ev, label_data, parsed,
                   timed, conv, flat_wrap>>
    /\ UNCHANGED genVars
    /\ UNCHANGED libVars

(* Second loop of ParseConv_convert: the event is converted, then its     *)
(* composites take their place in the event list.                          *)
FlattenEvent ==
    /\ ppc = "flatten"
    /\ \E c \in {ParseConv_add_event(CState, pe)} :
          /\ conv' = ConvOf(c)
          /\ \E g \in {IF c.crashed \/ c.err \/ evs[pe].composite = 0
                       THEN [GState EXCEPT !.ops = c.ops]
                       ELSE flatten_events([GState EXCEPT !.ops = c.ops],
                                           pe)} :
                /\ evs' = g.evs /\ ops' = g.ops /\ flat_wrap' = g.wrap
                /\ pe' = IF c.crashed \/ c.err THEN pe ELSE g.evs[pe].next
                /\ ppc' = IF c.crashed THEN "crashed"
                          ELSE IF c.err THEN "error"
                          ELSE IF g.evs[pe].next = 0 THEN "done"
                          ELSE "flatten"
    /\ UNCHANGED <<script, sp, pls, first_ev, last_ev, label_data, parsed,
                   timed>>
    /\ UNCHANGED genVars
    /\ UNCHANGED libVars

RECURSIVE TimePass(_, _)
(* The first loop of ParseConv_convert from event e on: time_event, and    *)
(* group_events for an event that closes a group.                          *)
TimePass(g0, e) ==
    IF e = 0 \/ g0.crashed THEN g0
    ELSE Only({ Only({ TimePass(g2, g2.evs[e].next)
                       : g2 \in {IF ~g1.crashed /\ g1.evs[e].groupfrom # 0
                                 THEN group_events(g1, e) ELSE g1} })
                : g1 \in {time_event(g0, e)} })

(* The time pass is applied once more to the timed parse, before the      *)
(* composites are flattened.                                               *)
Retime ==
    /\ ppc = "flatten" /\ pe = first_ev
    /\ \E g \in {TimePass(GState, first_ev)} :
          /\ evs' = g.evs /\ ops' = g.ops
          /\ ppc' = IF g.crashed THEN "crashed" ELSE "retimed"
    /\ timed' = [evs |-> evs, ops |-> ops]
    /\ UNCHANGED <<script, sp, pls, first_ev, last_ev, label_data, pe, parsed,
                   conv, flat_wrap>>
    /\ UNCHANGED genVars
    /\ UNCHANGED libVars

NextParse == ParseChar \/ ParseEOF \/ TimeEvent \/ GroupEvents \/ FlattenEvent

SpecParse == InitParse /\ [][NextParse]_vars

SpecBind == InitBind /\ [][NextParse]_vars

(* The script reader with a second application of the time pass. *)
NextRetime == NextParse \/ Retime

SpecRetime == InitParse /\ [][NextRetime]_vars

----------------------------------------------------------------------------
(* Properties of the generator.                                            *)

Nodes == 1..Len(prg)
Prepared(i) == "PREPARED" \in run_nodes[i].status
Active(i) == "ACTIVE" \in run_nodes[i].status

RECURSIVE DueAt(_)
(* The absolute sample at which node j becomes due (-1: not yet): a node   *)
(* without a delay of its own is due with the node before it.              *)
DueAt(j) ==
    IF prg[j].delay # 0 THEN due[j]
    ELSE IF j = 1 THEN 0 ELSE DueAt(j - 1)

(* C2: when a run node with a predecessor (ref_prev) becomes due, the      *)
(* predecessor has rendered no sample at or after the sample at which the  *)
(* successor's wait reached zero.                                          *)
C2_PredecessorSilenced ==
    \A j \in Nodes :
        (prg[j].ref_prev # 0 /\ DueAt(j) >= 0)
            => rend_end[prg[j].ref_prev] <= DueAt(j)

(* C3: run nodes are prepared in source order: a prepared node has no      *)
(* unprepared node before it.                                              *)
C3_PreparedInSourceOrder ==
    \A j \in Nodes : Prepared(j) => \A i \in 1..(j - 1) : Prepared(i)

(* C4: every run call returns, and repeated run calls with a positive      *)
(* block length reach the end-of-stream status.                            *)
C4_RunReturnsAndEnds ==
    /\ [](gpc = "process" => <>(gpc = "write"))
    /\ <>(gpc = "done" /\ ~ret)

(* The stream ended after several calls, one of which split its block. *)
C4_Witness ==
    /\ gpc = "done"
    /\ written > MaxLen
    /\ Len(prg) = MaxNodes
    /\ \E j \in Nodes : prg[j].delay # 0 /\ rend_end[j] > 0

(* The time an unprepared node is about to play. *)
RemainingTime(i) ==
    IF "TIME" \in prg[i].params THEN prg[i].time
    ELSE sound_nodes[SoundOf(prg, i)].time

(* C5 as stated: end of stream is reported exactly when every run node is  *)
(* either unprepared with zero remaining time or prepared and inactive.    *)
C5_EndExactlyWhenNothingRemains ==
    gpc = "write" =>
        (~ret <=> \A i \in Nodes :
                     \/ ~Prepared(i) /\ RemainingTime(i) = 0
                     \/ Prepared(i) /\ ~Active(i))

(* C5: end of stream is reported exactly when every run node is prepared   *)
(* and inactive; never while a node is active or still unprepared.         *)
C5_EndExactlyWhenAllPreparedInactive ==
    gpc = "write" =>
        (~ret <=> \A i \in Nodes : Prepared(i) /\ ~Active(i))

(* A call reported the end of the stream after nodes were rendered, and an *)
(* earlier call left a prepared node behind a waiting one.                 *)
C5_Witness ==
    /\ gpc = "write"
    /\ ~ret
    /\ Len(prg) = MaxNodes
    /\ \E i \in Nodes : prg[i].delay # 0 /\ rend_end[i] > 0
    /\ \A i \in Nodes : Prepared(i) /\ ~Active(i)

(* C6: for a program with no events the first run call reports end of      *)
(* stream and zero generated frames, and no sample reaches a sink.         *)
C6_EmptyProgramGeneratesNothing ==
    Len(prg) = 0 =>
        /\ (gpc = "write" => ~ret /\ gen_len = 0)
        /\ written = 0

----------------------------------------------------------------------------
(* Properties of the script reader. *)

RECURSIVE ListFrom(_, _)
(* The events linked by next, starting at e. *)
ListFrom(es, e) == IF e = 0 THEN <<>> ELSE <<e>> \o ListFrom(es, es[e].next)

(* The event list as it is linked now, and the ordinary sequence as the   *)
(* parser linked it (composite steps are outside it until flattened).     *)
EventList == ListFrom(evs, first_ev)
MainList == ListFrom(parsed.evs, first_ev)

Range(l) == {l[i] : i \in 1..Len(l)}
InList(e) == e \in Range(EventList)
Ordinary(e) == e \in Range(MainList)
PosIn(l, e) == CHOOSE i \in 1..Len(l) : l[i] = e

RECURSIVE SumWaitMs(_, _)
SumWaitMs(l, n) == IF n = 0 THEN 0 ELSE evs[l[n]].wait_ms + SumWaitMs(l, n - 1)

(* Absolute time of an event of the list: the waits up to it, added up. *)
AbsTime(e) == SumWaitMs(EventList, PosIn(EventList, e))

RECURSIVE Root(_)
(* The operator an operator node belongs to: the first node of its prev   *)
(* chain.                                                                  *)
Root(o) == IF ops[o].prev = 0 THEN o ELSE Root(ops[o].prev)

Updates == {o \in 1..Len(ops) : ops[o].prev # 0}
EvOf(o) == ops[o].event

SetMax(S) == IF S = {} THEN 0 ELSE CHOOSE x \in S : \A y \in S : y <= x

(* C1: after the flatten pass no wait has been taken below zero: no        *)
(* subtraction of flatten_events had a minuend smaller than what was taken *)
(* from it.                                                                *)
C1_FlattenKeepsWaits == ~flat_wrap

GroupEvs ==
    LET l == ListFrom(evs, first_ev)
    IN {l[i] : i \in PosIn(l, evs[pe].groupfrom)..PosIn(l, pe)}
GroupOpSet == UNION {Range(evs[e].op_list) : e \in GroupEvs}
GroupMax(os) == SetMax({os[o].time_v : o \in GroupOpSet})
AfterGroup == evs[pe].next

(* C8: a group pass for a group that an event follows adds to that event's *)
(* wait the longest duration the group's operators have after the pass.    *)
C8_AbsorbsMaxDuration ==
    [][(ppc = "group" /\ ppc' # "crashed" /\ AfterGroup # 0)
       => evs'[AfterGroup].wait_ms
              = U32(evs[AfterGroup].wait_ms + GroupMax(ops'))]_vars

(* C8, as the code has it: the amount added is the longest time the       *)
(* operators listed in the group's events carry when the pass starts; an   *)
(* operator the pass gives a default time may then last longer.            *)
C8_AbsorbsMaxTimeBefore ==
    [][(ppc = "group" /\ ppc' # "crashed" /\ AfterGroup # 0)
       => evs'[AfterGroup].wait_ms
              = U32(evs[AfterGroup].wait_ms + GroupMax(ops))]_vars

(* A group pass is done: the event at pe has absorbed the wait of the     *)
(* group before it, in which an operator was given a longer default time.  *)
C8_Witness ==
    /\ ppc = "time"
    /\ \E e \in 1..Len(evs) :
          /\ evs[e].next = pe
          /\ parsed.evs[e].groupfrom # 0 /\ evs[e].groupfrom = 0
          /\ evs[pe].wait_ms > parsed.evs[pe].wait_ms
          /\ \E o \in 1..Len(ops) :
                /\ Ordinary(EvOf(o))
                /\ PosIn(MainList, EvOf(o))
                       \in PosIn(MainList, parsed.evs[e].groupfrom)
                           ..PosIn(MainList, e)
                /\ ops[o].time_v > evs[pe].wait_ms - parsed.evs[pe].wait_ms

(* The end of an event's longest operator, and the time at which the last *)
(* operator of the list ends.                                              *)
EndTime(e) == AbsTime(e) + SetMax({ops[o].time_v : o \in Range(evs[e].op_list)})
ProgramLength == SetMax({EndTime(e) : e \in Range(EventList)})

(* C9: `Osin t1 | Osin t0.5 | Osin t2` gives each of its three operators  *)
(* a duration of 2 s and a program of 2 s.                                 *)
C9_GroupExampleAllTwoSeconds ==
    (script = GroupScript /\ ppc = "done") =>
        /\ Len(ops) = 3
        /\ \A o \in 1..Len(ops) : ops[o].time_v = 20
        /\ ProgramLength = 20

(* C9, as the code has it: each `|` closes a group of its own, so the     *)
(* operators keep their 1 s, 0.5 s and 2 s, start at 0 s, 1 s and 1.5 s,   *)
(* and the program is 3.5 s long.                                          *)
C9_GroupExampleInSequence ==
    (script = GroupScript /\ ppc = "done") =>
        /\ Len(ops) = 3 /\ EventList = <<1, 2, 3>>
        /\ <<ops[1].time_v, ops[2].time_v, ops[3].time_v>> = <<10, 5, 20>>
        /\ <<AbsTime(1), AbsTime(2), AbsTime(3)>> = <<0, 10, 15>>
        /\ ProgramLength = 35

C9_Witness == script = GroupScript /\ ppc = "done" /\ Len(EventList) = 3

(* The state in which the time pass has just ended, and the composite     *)
(* chain of an event in it: its steps, their first operators, and the      *)
(* operator they continue.                                                 *)
TimePassDone == ppc = "flatten" /\ pe = first_ev
Chain(e) == ListFrom(evs, evs[e].composite)
StepOp(ce) == Head(evs[ce].op_list)
MainOp(e) == ops[StepOp(evs[e].composite)].prev
Linked(o) == "LINKED" \in ops[o].time_flags
LinkedStep(e) == \E i \in 1..Len(Chain(e)) : Linked(StepOp(Chain(e)[i]))

RECURSIVE SumStepTimes(_, _)
SumStepTimes(l, n) ==
    IF n = 0 THEN 0 ELSE ops[StepOp(l[n])].time_v + SumStepTimes(l, n - 1)

(* C10: after the time pass the main operator of a composite chain has    *)
(* the sum of the durations of the main step and of the composite steps,   *)
(* and is LINKED if a step is.                                             *)
C10_MainTimeIsSumOfDurations ==
    TimePassDone =>
        \A e \in Range(MainList) : evs[e].composite # 0 =>
            /\ LinkedStep(e) => Linked(MainOp(e))
            /\ ~Linked(MainOp(e)) =>
                  ops[MainOp(e)].time_v
                      = U32(parsed.ops[MainOp(e)].time_v
                            + SumStepTimes(Chain(e), Len(Chain(e))))

(* C10, as the code has it: the main operator lasts until the last step   *)
(* of its chain ends, which is the waits of the steps (each the duration   *)
(* of the step before it plus the wait written before it) added up, plus   *)
(* the last step's duration; it is LINKED if a step is.                    *)
C10_MainTimeIsEndOfChain ==
    TimePassDone =>
        \A e \in 1..Len(evs) : evs[e].composite # 0 =>
            /\ LinkedStep(e) => Linked(MainOp(e))
            /\ ~Linked(MainOp(e)) =>
                  ops[MainOp(e)].time_v
                      = U32(SumWaitMs(Chain(e), Len(Chain(e)))
                            + ops[StepOp(Chain(e)[Len(Chain(e))])].time_v)

C10_Witness ==
    /\ TimePassDone /\ script = CompositeScript
    /\ Len(Chain(1)) = 2 /\ MainOp(1) = 1 /\ ops[1].time_v = 3

(* C11: in `Osin f200 t0.5 \t Osin f400 t0.5` the `\t` delays the second  *)
(* operator by the duration of the first: the second operator has an event *)
(* of its own, with a wait of 500 ms, 500 ms into the script.              *)
C11_WaitForPreviousExample ==
    (script = WaitPrevScript /\ ppc = "done") =>
        /\ Len(ops) = 2
        /\ EvOf(2) # EvOf(1)
        /\ evs[EvOf(2)].wait_ms = 5
        /\ AbsTime(EvOf(2)) = 5

(* C12: a second application of the time pass to a timed parse changes no  *)
(* operator time value, time flag or ramp time and no event wait.          *)
C12_RetimeIsNoOp ==
    ppc = "retimed" =>
        /\ \A o \in 1..Len(ops) :
              /\ ops[o].time_v = timed.ops[o].time_v
              /\ ops[o].time_flags = timed.ops[o].time_flags
              /\ ops[o].ramp_ms = timed.ops[o].ramp_ms
        /\ \A e \in 1..Len(evs) : evs[e].wait_ms = timed.evs[e].wait_ms

(* The lowered events and operators. *)
ScriptEvs == 1..Len(conv.sev)
ScriptOps == 1..Len(conv.sod)
NewOpGraph(e) == "NEW_OPGRAPH" \in conv.sev[e].ev_flags

(* C13: every lowered event marked as creating a new operator graph has a  *)
(* non-empty op_carriers list.                                             *)
C13_NewGraphHasCarriers ==
    \A e \in ScriptEvs : NewOpGraph(e) => conv.sev[e].op_carriers # <<>>

(* C14: every operator listed in a lowered event's op_carriers has the     *)
(* NEW_CARRIER flag and is listed there exactly once.                      *)
C14_CarriersAreNewAndUnique ==
    \A e \in ScriptEvs :
        LET l == conv.sev[e].op_carriers
        IN /\ \A i \in 1..Len(l) : "NEW_CARRIER" \in conv.sod[l[i]].op_flags
           /\ \A i, j \in 1..Len(l) : l[i] = l[j] => i = j

RECURSIVE OpPrevChain(_)
(* The script operators reached from od by following op_prev. *)
OpPrevChain(od) ==
    IF conv.sod[od].op_prev = 0 THEN <<>>
    ELSE <<conv.sod[od].op_prev>> \o OpPrevChain(conv.sod[od].op_prev)

(* The lowered updates: script operators listed in their event's op_all,  *)
(* and the earlier lowered nodes of the same operator.                     *)
Lowered(od) == od \in Range(conv.sev[conv.sod[od].event].op_all)
EarlierOf(od) ==
    {x \in ScriptOps : /\ Lowered(x)
                       /\ Root(conv.sod[x].pod) = Root(conv.sod[od].pod)
                       /\ conv.sod[x].event < conv.sod[od].event}

(* C15: from a lowered update, op_prev reaches every earlier event's node  *)
(* of the same operator within as many steps as there are events, and      *)
(* every node reached through op_prev is flagged LATER_USED.                *)
C15_OpPrevReachesWithinEvents ==
    \A od \in ScriptOps : Lowered(od) =>
        /\ \A x \in EarlierOf(od) :
              \E n \in 1..Len(conv.sev) :
                  n <= Len(OpPrevChain(od)) /\ OpPrevChain(od)[n] = x
        /\ \A x \in Range(OpPrevChain(od)) :
              "LATER_USED" \in conv.sod[x].op_flags

(* The lowered nodes of the operator of od that were converted before it. *)
BeforeOf(od) ==
    {x \in ScriptOps : /\ Lowered(x) /\ x < od
                       /\ Root(conv.sod[x].pod) = Root(conv.sod[od].pod)}

(* C15, as the code has it: from a lowered update, op_prev leads through   *)
(* exactly the nodes of the same operator converted before it, newest      *)
(* first, so the chain ends after as many steps as there are such nodes   *)
(* (an event can hold several of them); each is flagged LATER_USED.        *)
C15_OpPrevReachesAllEarlier ==
    \A od \in ScriptOps : Lowered(od) =>
        LET chain == OpPrevChain(od)
        IN /\ Range(chain) = BeforeOf(od)
           /\ Len(chain) = Cardinality(BeforeOf(od))
           /\ \A i \in 1..Len(chain) :
                 /\ chain[i] < (IF i = 1 THEN od ELSE chain[i - 1])
                 /\ "LATER_USED" \in conv.sod[chain[i]].op_flags

(* An operator was lowered whose op_prev chain is longer than the number   *)
(* of events and reaches a node of an earlier event.                       *)
C15_Witness ==
    /\ ppc = "done"
    /\ \E od \in ScriptOps :
          /\ Lowered(od)
          /\ Len(OpPrevChain(od)) > Len(conv.sev)
          /\ EarlierOf(od) # {}

(* A composite step: the operator node a `;` begins, first in an event     *)
(* that is outside the ordinary event sequence while the script is read.   *)
CompositeStep(o) ==
    /\ ops[o].prev # 0
    /\ "HAS_COMPOSITE" \in ops[ops[o].prev].op_flags
    /\ ops[o].event \notin Range(ListFrom(evs, first_ev))
    /\ Head(evs[ops[o].event].op_list) = o

(* C16: a label never names a composite step: a label assignment taking    *)
(* effect at a `;` is forwarded to the main operator, which a later        *)
(* reference then continues.                                               *)
C16_CompositeLabelForwarded ==
    ppc = "parse" => (label_data # 0 => ~CompositeStep(label_data))

(* C17: whenever an operator is rendered, the allocated scratch-buffer    *)
(* count is at least calc_bufs of its current modulation tree, whatever   *)
(* updates were prepared before, and the allocated count never decreases: *)
(* no render is ever handed fewer buffers than it uses.                    *)
C17_BuffersCoverRenderedTree == ~bufs_short

C19_RendersTwiceIffRatesDiffer ==
    (/\ runp.pc = "returned"
     /\ (runp.use_audiodev => runp.ad)
     /\ (runp.wav_path => runp.wf))
    => IF runp.ad /\ runp.wf /\ runp.ad_srate # runp.srate
       THEN /\ Len(runp.renders) = 2
            /\ runp.renders[1].ad /\ ~runp.renders[1].wf
            /\ runp.renders[1].srate = runp.ad_srate
            /\ runp.renders[2].wf /\ ~runp.renders[2].ad
            /\ runp.renders[2].srate = runp.srate
       ELSE Len(runp.renders) = 1

(* C20: the script reader recovers from every syntax error: whatever the  *)
(* script, reading it goes on to the end of the input and leaves a parse  *)
(* result; it never stops before the end of the script is handled.        *)
C20_ParserAlwaysYieldsResult ==
    ~(ppc = "crashed" /\ parsed.evs = <<>>)

(* C26: whenever the script reader accepts a `\t` wait, an event ended     *)
(* before it in the current scope exists and receives the flag             *)
(* ADD_WAIT_DURATION: reading a `\t` never stops at a missing previous     *)
(* event, and an event that has the flag is never one still open.          *)
C26_WaitUsesEndedEvent ==
    /\ ~(/\ ppc = "crashed" /\ parsed.evs = <<>>
         /\ sp > 1 /\ script[sp - 1].k = "WT"
         /\ pls[Len(pls)].last_op # 0 /\ pls[Len(pls)].last_event = 0)
    /\ (ppc = "parse" =>
          \A e \in 1..Len(evs) :
              "ADD_WAIT_DURATION" \in evs[e].ev_flags
              => \A l \in 1..Len(pls) : pls[l].event # e)

(* C25: whenever an event that has a voice predecessor (vo_prev) is        *)
(* converted, the predecessor has been converted before it and has its    *)
(* voice context: the conversion never comes to an event whose            *)
(* predecessor is still without one.                                      *)
C25_VoicePredecessorConverted ==
    /\ \A e \in DOMAIN conv.ev_conv :
          (conv.ev_conv[e] # 0 /\ evs[e].vo_prev # 0)
          => /\ conv.ev_conv[evs[e].vo_prev] # 0
             /\ conv.ev_conv[evs[e].vo_prev] < conv.ev_conv[e]
             /\ conv.vo_ctx[evs[e].vo_prev] # 0
    /\ ~(/\ ppc = "crashed" /\ conv.sev # <<>>
         /\ evs[pe].vo_prev # 0
         /\ conv.vo_ctx[evs[pe].vo_prev] = 0)

(* C23: flatten_events preserves absolute times: after a call for the     *)
(* event at pe, every step of its composite chain lies at the absolute    *)
(* time of pe plus the composite waits up to that step, and every event   *)
(* that was in the list keeps the absolute time it had before the call.   *)
C23_FlattenPreservesTimes ==
    [][(ppc = "flatten" /\ ppc' \in {"flatten", "done"}
        /\ evs[pe].composite # 0)
       => \A after \in {evs'} :
             LET chain == ListFrom(evs, evs[pe].composite)
                 l2 == ListFrom(after, first_ev)
                 Sum2[n \in 0..Len(l2)] ==
                     IF n = 0 THEN 0 ELSE after[l2[n]].wait_ms + Sum2[n - 1]
                 AbsAfter(e) == Sum2[PosIn(l2, e)]
             IN /\ \A e \in Range(EventList) :
                      e \in Range(l2) /\ AbsAfter(e) = AbsTime(e)
                /\ \A k \in 1..Len(chain) :
                      /\ chain[k] \in Range(l2)
                      /\ AbsAfter(chain[k])
                           = AbsTime(pe) + SumWaitMs(chain, k)]_vars

C28_IgnoredSkipped ==
    \A o \in DOMAIN ops :
        "IGNORED" \in ops[o].op_flags
        => /\ \A e \in DOMAIN conv.sev :
                 /\ \A k \in DOMAIN conv.sev[e].op_all :
                       conv.sod[conv.sev[e].op_all[k]].pod # o
                 /\ \A k \in DOMAIN conv.sev[e].op_carriers :
                       conv.sod[conv.sev[e].op_carriers[k]].pod # o
           /\ \A d \in DOMAIN conv.sod :
                 \A j \in DOMAIN conv.sod[d].mod_lists :
                     \A k \in DOMAIN conv.sod[d].mod_lists[j] :
                         conv.sod[conv.sod[d].mod_lists[j][k]].pod # o
           /\ ppc # "error"

C28_Witness ==
    /\ ppc = "done"
    /\ \E o \in DOMAIN ops :
          "IGNORED" \in ops[o].op_flags /\ "MULTIPLE" \in ops[o].op_flags
    /\ \E o \in DOMAIN ops :
          "IGNORED" \in ops[o].op_flags /\ "MULTIPLE" \notin ops[o].op_flags

(* C27: for every tree of modulators under a top-level operator, the       *)
(* highest index into the buffers that run_block and run_block_waveenv     *)
(* read or write is smaller than calc_bufs of the operator.                *)
C27_BlockStaysInBufs ==
    blk.pc = "run" => blk.hi < calc_bufs(blk.sn, 1)

(* C21: the process exits with status 0 if no scripts are to be processed  *)
(* (parse_args fails) or every built script was rendered without error,    *)
(* and with status 1 otherwise: no script passed the build, or rendering   *)
(* reported an error.                                                      *)
C21_ExitStatus ==
    cli.pc = "exit"
    => cli.status = IF ~cli.ok \/ (cli.built > 0 /\ ~cli.render_error)
                    THEN 0 ELSE 1

C21_Witness ==
    /\ cli.pc = "exit" /\ cli.ok /\ cli.built > 0
    /\ cli.rendered > 0 /\ cli.render_error /\ cli.status = 1

(* C22 as stated: a command line that has both flags of an incompatible    *)
(* pair (-a with -m, or -c with one of -a, -m, -r, -o), in either order,   *)
(* prints the usage, builds and renders nothing and exits with status 0.   *)
(* A word is a flag unless it is the value of the flag before it.          *)
C22_IncompatibleFlagsUsage ==
    LET argv == cli.argv
        IsFlag[k \in 0..Len(argv)] ==
            /\ k > 0
            /\ argv[k] \notin {"s", "1"}
            /\ ~(IsFlag[k - 1] /\ argv[k - 1] \in {"-o", "-r", "-h"})
        Clash(x, y) ==
            \/ {x, y} = {"-a", "-m"}
            \/ (x = "-c" /\ y \in {"-a", "-m", "-r", "-o"})
            \/ (y = "-c" /\ x \in {"-a", "-m", "-r", "-o"})
    IN (/\ cli.pc = "exit"
        /\ \E j \in 1..Len(argv) : \E i \in 1..(j - 1) :
               IsFlag[i] /\ IsFlag[j] /\ Clash(argv[i], argv[j]))
       => /\ cli.usage /\ cli.built = 0 /\ cli.rendered = 0
          /\ cli.status = 0

(* C22, amended: the usage is printed if no -v flag comes before the       *)
(* second flag of the pair; otherwise either the usage or the version is   *)
(* printed.  Either way nothing is built or rendered and the exit status   *)
(* is 0.                                                                   *)
C22_IncompatibleFlagsNoWork ==
    LET argv == cli.argv
        IsFlag[k \in 0..Len(argv)] ==
            /\ k > 0
            /\ argv[k] \notin {"s", "1"}
            /\ ~(IsFlag[k - 1] /\ argv[k - 1] \in {"-o", "-r", "-h"})
        Clash(x, y) ==
            \/ {x, y} = {"-a", "-m"}
            \/ (x = "-c" /\ y \in {"-a", "-m", "-r", "-o"})
            \/ (y = "-c" /\ x \in {"-a", "-m", "-r", "-o"})
        Clashes == {j \in 1..Len(argv) : \E i \in 1..(j - 1) :
                       IsFlag[i] /\ IsFlag[j] /\ Clash(argv[i], argv[j])}
        VersionBefore(j) == \E v \in 1..(j - 1) : IsFlag[v] /\ argv[v] = "-v"
    IN (cli.pc = "exit" /\ Clashes # {})
       => /\ cli.built = 0 /\ cli.rendered = 0 /\ cli.status = 0
          /\ ~cli.ok
          /\ IF \E j \in Clashes : ~VersionBefore(j)
             THEN cli.usage /\ ~cli.version
             ELSE cli.usage # cli.version

C22_Witness ==
    /\ cli.pc = "exit" /\ cli.usage
    /\ cli.argv = <<"s", "-o", "s", "-c">>

====
